---- MODULE Spec2Model ----
(***************************************************************************)
(* grape-recorder: the streaming decimation pipeline.                      *)
(*                                                                         *)
(* RawBinaryReader (core/raw_reader.py) lists and decodes the per-minute   *)
(* raw files of one channel and day; DecimationPipeline                    *)
(* (core/decimation_pipeline.py) drives one reader -> decimator -> buffer  *)
(* chain per channel.  StatefulDecimator (core/decimation.py) and          *)
(* DecimatedBuffer (core/decimated_buffer.py) are not part of the source   *)
(* tree at hand: they are modelled from sections 4.2 and 4.3 of the        *)
(* specification.                                                          *)
(*                                                                         *)
(* Units: timestamps are unix seconds; a date string YYYYMMDD is modelled  *)
(* by its day number since the epoch (strftime('%Y%m%d') of a UTC time is  *)
(* one-to-one with floor(ts / 86400)); d_clock_ms and uncertainty_ms are   *)
(* held in tenths of a millisecond (999.9 ms is 9999).                     *)
(***************************************************************************)
EXTENDS Integers, Sequences, FiniteSets, TLC

\* ------------------------------------------------------------ constants

\* decimation_pipeline.py:93, StatefulDecimator(..., output_rate=10)
OutputRate == 10
\* raw_reader.py:175 and :181, the nominal rate of get_sample_rate
DefaultRate == 24000
\* test_integration_v2.py:29, the rate of the recorded test signal
TestRate == 20000
\* seconds of one minute and of one UTC day (datetime arithmetic)
SecondsPerMinute == 60
SecondsPerDay == 1440 * SecondsPerMinute
\* decimated_buffer.SAMPLES_PER_MINUTE (imported at decimation_pipeline.py:12)
SAMPLES_PER_MINUTE == OutputRate * SecondsPerMinute
\* defaults of decimation_pipeline.py:130-132 (tenths of a millisecond)
DefaultDClock == 0
DefaultUncertainty == 9999
DefaultGrade == "X"

\* ------------------------------------------------------------ bounds

\* number of consecutive minute positions 00:00, 00:01, ... of the day that
\* may hold raw files
NumMinutes == 3
\* number of process_day calls made one after the other
MaxRuns == 2
\* longest list of channels handed to the channel loop
MaxChannels == 2

\* the day that is processed: 2025-12-14 (test_integration_v2.py:55)
TestDay == 20436
DayStart == TestDay * SecondsPerDay

\* the logical channels, in Python's string order (sorted() at
\* decimation_pipeline.py:67 orders a list of them by this index)
ChannelNames == <<"CHU 3.33 MHz", "WWV 10 MHz", "WWV 5 MHz">>
Channels == {ChannelNames[i] : i \in 1..Len(ChannelNames)}
ChannelIndex(ch) == CHOOSE i \in 1..Len(ChannelNames) : ChannelNames[i] = ch

\* ------------------------------------------------------------ values

\* Optional[x]: None is <<>>, a value x is <<x>>
None == <<>>
Some(x) == <<x>>
IsNone(o) == o = <<>>

\* a Python dict with string keys: a function on the set of its keys
EmptyDict == <<>>
Get(d, k, default) == IF k \in DOMAIN d THEN d[k] ELSE default

\* a JSON value met in the sample_rate field: a number, or something int()
\* cannot convert (null, a list, a word)
JsonInt(n) == [isint |-> TRUE, v |-> n]
JsonNull == [isint |-> FALSE, v |-> 0]

\* ------------------------------------------------------------ raw archive

\* One file of <archive_dir>/<dir>/: "<stem>.<ext>".  A payload file holds
\* samples (ok: it decodes; len: number of complex samples; data: a tag
\* standing for their values); a .json file holds a dict (ok: it parses).
PayloadFile(d, t, e, good, n, tag) ==
    [dir |-> d, stem |-> t, ext |-> e, ok |-> good, len |-> n, data |-> tag,
     fields |-> EmptyDict]
JsonFile(d, t, good, dict) ==
    [dir |-> d, stem |-> t, ext |-> "json", ok |-> good, len |-> 0, data |-> 0,
     fields |-> dict]

FullMinute(rate) == rate * SecondsPerMinute

\* The contents one minute position may have (the inputs of the model).
\* Each is the set of files with stem t in directory d.

\* a full minute at 24 kHz, uncompressed, no metadata file
FullMinuteFiles(d, t) ==
    {PayloadFile(d, t, "bin", TRUE, FullMinute(DefaultRate), 1)}
\* a full minute at 24 kHz with metadata and upstream gap samples
FullMinuteWithMeta(d, t) ==
    {PayloadFile(d, t, "bin", TRUE, FullMinute(DefaultRate), 2),
     JsonFile(d, t, TRUE, [d_clock_ms |-> 12, uncertainty_ms |-> 3,
                           quality_grade |-> "A", gap_samples |-> 5])}
\* a full minute at 20 kHz, zstd, no metadata: 500 decimated samples at the
\* nominal rate
TestRateMinute(d, t) ==
    {PayloadFile(d, t, "bin.zst", TRUE, FullMinute(TestRate), 3)}
\* a payload that does not decode, with readable metadata
CorruptMinute(d, t) ==
    {PayloadFile(d, t, "bin", FALSE, 0, 0),
     JsonFile(d, t, TRUE, [gap_samples |-> 7])}
\* an empty payload
EmptyMinute(d, t) == {PayloadFile(d, t, "bin.lz4", TRUE, 0, 0)}
\* a truncated payload, shorter than one decimated sample
TruncatedMinute(d, t) == {PayloadFile(d, t, "bin", TRUE, 1000, 4)}

MinuteKinds(d, t) ==
    {{}, FullMinuteFiles(d, t), FullMinuteWithMeta(d, t), TestRateMinute(d, t),
     CorruptMinute(d, t), EmptyMinute(d, t), TruncatedMinute(d, t)}

\* Contents that fix the sample rate of the day when they are its first
\* minute (get_sample_rate reads the first minute's metadata): 20 kHz
\* declared, a value int() rejects, a rate 10 does not divide.
RateKinds(d, t) == {
    {PayloadFile(d, t, "bin", TRUE, FullMinute(TestRate), 5),
     JsonFile(d, t, TRUE, [sample_rate |-> JsonInt(TestRate)])},
    {PayloadFile(d, t, "bin", TRUE, FullMinute(DefaultRate), 6),
     JsonFile(d, t, TRUE, [sample_rate |-> JsonNull])},
    {PayloadFile(d, t, "bin", TRUE, FullMinute(DefaultRate), 7),
     JsonFile(d, t, TRUE, [sample_rate |-> JsonInt(DefaultRate + 5)])} }

MinuteStart(i) == DayStart + (i - 1) * SecondsPerMinute

\* ------------------------------------------------------------ RawBinaryReader

\* Path.glob yields the entries of a directory in no particular order: the
\* listing orders the model tries
ListingOrders == {"ascending", "descending"}

RECURSIVE Ascending(_)
\* the elements of a finite set of integers, smallest first
Ascending(S) ==
    IF S = {} THEN <<>>
    ELSE LET m == CHOOSE x \in S : \A y \in S : x <= y
         IN <<m>> \o Ascending(S \ {m})

Reverse(s) == [i \in 1..Len(s) |-> s[Len(s) + 1 - i]]

\* rank of an extension, to enumerate the files of one stem
ExtRank(e) ==
    CASE e = "bin" -> 1 [] e = "bin.zst" -> 2 [] e = "bin.lz4" -> 3
      [] e = "bin.tmp" -> 4 [] OTHER -> 5

RECURSIVE ByName(_)
\* the files of a set, by stem and then by extension
ByName(fs) ==
    IF fs = {} THEN <<>>
    ELSE LET f == CHOOSE x \in fs : \A y \in fs :
                    \/ x.stem < y.stem
                    \/ x.stem = y.stem /\ ExtRank(x.ext) <= ExtRank(y.ext)
         IN <<f>> \o ByName(fs \ {f})

\* day_dir.glob('*.bin*'): the stems of the files of directory `day` whose
\* name holds ".bin", one entry per file, in the listing order
Glob(files, day, order) ==
    LET hits == ByName({f \in files : f.dir = day /\ f.ext /= "json"})
        stems == [i \in 1..Len(hits) |-> hits[i].stem]
    IN IF order = "ascending" THEN stems ELSE Reverse(stems)

\* sorted(list(minutes)) of raw_reader.py:79
Sorted(S) == Ascending(S)

\* (mutant) the stems returned as the glob lists them
ListedMinutes(files, day, order) == Glob(files, day, order)

RECURSIVE WithRepeats(_, _)
\* the entries of listing, grouped by value in the order of the sequence vs
WithRepeats(listing, vs) ==
    IF vs = <<>> THEN <<>>
    ELSE SelectSeq(listing, LAMBDA x : x = Head(vs))
           \o WithRepeats(listing, Tail(vs))

\* (mutant) the stems are kept in a list, one entry per file, and sorted
SortedListing(files, day, order) ==
    LET listing == Glob(files, day, order)
    IN WithRepeats(listing, Ascending({listing[i] : i \in 1..Len(listing)}))

\* (mutant) a minute is named by its last second
MinuteEnds(files, day, order) ==
    LET ms == Sorted({f.stem : f \in {x \in files : x.dir = day /\ x.ext /= "json"}})
    IN [i \in 1..Len(ms) |-> ms[i] + SecondsPerMinute - 1]

\* RawBinaryReader.get_available_minutes: the stems found by the glob,
\* collected in a set, returned in ascending order
get_available_minutes(files, day, order) ==
    LET listing == Glob(files, day, order)
        minutes == {listing[i] : i \in 1..Len(listing)}
    IN Sorted(minutes)

\* datetime.fromtimestamp(ts, tz=utc).strftime('%Y%m%d')
DateOf(ts) == ts \div SecondsPerDay

\* the file <archive_dir>/<DateOf(ts)>/<ts>.<ext>, if it exists
FileAt(files, ts, e) ==
    {f \in files : f.dir = DateOf(ts) /\ f.stem = ts /\ f.ext = e}

Samples(f) == [len |-> f.len, data |-> f.data]

\* np.memmap of an uncompressed file: fails on a damaged and on an empty file
ReadBin(files, ts) ==
    LET fs == FileAt(files, ts, "bin")
    IN IF fs = {} THEN None
       ELSE LET f == CHOOSE x \in fs : TRUE
            IN IF f.ok /\ f.len > 0 THEN Some(Samples(f)) ELSE None

\* decompress + np.frombuffer of a compressed file
ReadCompressed(files, ts, e) ==
    LET fs == FileAt(files, ts, e)
    IN IF fs = {} THEN None
       ELSE LET f == CHOOSE x \in fs : TRUE
            IN IF f.ok THEN Some(Samples(f)) ELSE None

\* json.load of the sibling metadata file
ReadJson(files, ts) ==
    LET fs == FileAt(files, ts, "json")
    IN IF fs = {} THEN None
       ELSE LET f == CHOOSE x \in fs : TRUE
            IN IF f.ok THEN Some(f.fields) ELSE None

\* (mutant) one try block around payload and metadata: a failure of either
\* leaves both absent
ReadAllOrNothing(files, ts) ==
    LET bin == ReadBin(files, ts)
        zst == IF IsNone(bin) THEN ReadCompressed(files, ts, "bin.zst") ELSE bin
        lz4 == IF IsNone(zst) THEN ReadCompressed(files, ts, "bin.lz4") ELSE zst
        failed == \E f \in files :
                    f.dir = DateOf(ts) /\ f.stem = ts /\ ~f.ok
    IN IF failed THEN [samples |-> None, metadata |-> None]
       ELSE [samples |-> lz4, metadata |-> ReadJson(files, ts)]

\* (mutant) the first encoding that exists is the one that is read
ReadFirstExisting(files, ts) ==
    LET e == IF FileAt(files, ts, "bin") /= {} THEN "bin"
             ELSE IF FileAt(files, ts, "bin.zst") /= {} THEN "bin.zst"
             ELSE "bin.lz4"
    IN [samples |-> IF e = "bin" THEN ReadBin(files, ts)
                    ELSE ReadCompressed(files, ts, e),
        metadata |-> ReadJson(files, ts)]

\* RawBinaryReader.read_minute: .bin, then .bin.zst, then .bin.lz4
read_minute(files, ts) ==
    LET bin == ReadBin(files, ts)
        zst == IF IsNone(bin) THEN ReadCompressed(files, ts, "bin.zst") ELSE bin
        lz4 == IF IsNone(zst) THEN ReadCompressed(files, ts, "bin.lz4") ELSE zst
    IN [samples |-> lz4, metadata |-> ReadJson(files, ts)]

\* Python truth of Optional[dict]: neither None nor empty
Truthy(meta) == ~IsNone(meta) /\ DOMAIN meta[1] /= {}

\* RawBinaryReader.get_sample_rate, before int(): the declared value of the
\* first available minute, or the nominal default
DeclaredRate(files, day, order) ==
    LET minutes == get_available_minutes(files, day, order)
        meta == IF minutes = <<>> THEN None
                ELSE read_minute(files, minutes[1]).metadata
    IN IF Truthy(meta) /\ "sample_rate" \in DOMAIN meta[1]
       THEN meta[1]["sample_rate"]
       ELSE JsonInt(DefaultRate)

\* int(meta['sample_rate']) raises on a value that is no number
get_sample_rate_raises(files, day, order) ==
    ~DeclaredRate(files, day, order).isint

\* (mutant) the nominal rate, whatever the metadata declare
NominalRate(files, day, order) == DefaultRate

get_sample_rate(files, day, order) == DeclaredRate(files, day, order).v

\* ------------------------------------------------------------ StatefulDecimator

\* (section 4.2)  The state holds the filter history (the tags of the
\* segments fed so far) and the phase accumulator (input samples not yet
\* turned into an output sample).
NewDecimator == [hist |-> <<>>, phase |-> 0]

\* construction fails when output_rate does not divide input_rate
decimator_init_raises(input_rate) ==
    input_rate <= 0 \/ input_rate % OutputRate /= 0

\* process(samples): the state after the call
process_state(dec, input_rate, samples) ==
    IF samples.len = 0 THEN dec
    ELSE [hist |-> Append(dec.hist, samples.data),
          phase |-> (dec.phase + samples.len) % (input_rate \div OutputRate)]

\* process(samples): the decimated chunk; its values are a function of the
\* whole history, its length follows the fixed ratio
process_output(dec, input_rate, samples) ==
    IF samples.len = 0 THEN [len |-> 0, data |-> <<>>]
    ELSE [len |-> (dec.phase + samples.len) \div (input_rate \div OutputRate),
          data |-> Append(dec.hist, samples.data)]

\* ------------------------------------------------------------ DecimatedBuffer

\* (section 4.3)  The day's buffer: the written slots (minute of the day ->
\* payload and metadata row); a slot outside the domain is unwritten.
EmptyBuffer == <<>>

SlotOf(minute_utc) == (minute_utc % SecondsPerDay) \div SecondsPerMinute

\* (mutant) write_minute checks the length only
AcceptsAnyTimestamp(day, minute_utc, chunk) == chunk.len = SAMPLES_PER_MINUTE

\* write_minute: steps 1 and 2, the rejections
write_accepts(day, minute_utc, chunk) ==
    /\ minute_utc % SecondsPerMinute = 0
    /\ DateOf(minute_utc) = day
    /\ chunk.len = SAMPLES_PER_MINUTE

\* write_minute: steps 3 and 4, the buffer after the call
write_minute(buf, day, minute_utc, chunk, d_clock, uncertainty, grade, gaps) ==
    IF write_accepts(day, minute_utc, chunk)
    THEN LET row == [iq |-> chunk.data, d_clock_ms |-> d_clock,
                     uncertainty_ms |-> uncertainty, quality_grade |-> grade,
                     gap_samples |-> gaps]
         IN [s \in (DOMAIN buf) \cup {SlotOf(minute_utc)} |->
                IF s = SlotOf(minute_utc) THEN row ELSE buf[s]]
    ELSE buf

\* ------------------------------------------------------------ data root

\* the directory names met under raw_archive and raw_buffer: a channel's
\* name with underscores, with spaces, or with both
DirNames ==
    {"CHU_3.33_MHz", "CHU 3.33 MHz", "WWV_10_MHz", "WWV 10 MHz", "WWV_10 MHz",
     "WWV_5_MHz", "WWV 5 MHz"}

\* str.replace('_', ' ') on these names (decimation_pipeline.py:62)
UnderscoresToSpaces(name) ==
    CASE name \in {"CHU_3.33_MHz", "CHU 3.33 MHz"} -> "CHU 3.33 MHz"
      [] name \in {"WWV_10_MHz", "WWV 10 MHz", "WWV_10 MHz"} -> "WWV 10 MHz"
      [] name \in {"WWV_5_MHz", "WWV 5 MHz"} -> "WWV 5 MHz"

\* (mutant) the channel name is used as the directory name
KeepSpaces(name) == name

\* str.replace(' ', '_') on these names (raw_reader.py:35)
SpacesToUnderscores(name) ==
    CASE name \in {"CHU_3.33_MHz", "CHU 3.33 MHz"} -> "CHU_3.33_MHz"
      [] name \in {"WWV_10_MHz", "WWV 10 MHz", "WWV_10 MHz"} -> "WWV_10_MHz"
      [] name \in {"WWV_5_MHz", "WWV 5 MHz"} -> "WWV_5_MHz"

\* One entry of raw_archive/ or raw_buffer/: a directory with the files of
\* its day directories, or a plain file.  Each of the two roots is a
\* function from the names of its entries; a root that does not exist has
\* no entries.
Directory(files) == [is_dir |-> TRUE, files |-> files]
PlainFile == [is_dir |-> FALSE, files |-> {}]
NoEntries == <<>>

\* (mutant) raw_buffer is looked at first
BufferFirst(root, channel_name) ==
    IF SpacesToUnderscores(channel_name) \in DOMAIN root["raw_buffer"]
    THEN "raw_buffer" ELSE "raw_archive"

\* RawBinaryReader.__init__: the root archive_dir is taken from
ArchiveDirRoot(root, channel_name) ==
    IF SpacesToUnderscores(channel_name) \in DOMAIN root["raw_archive"]
    THEN "raw_archive" ELSE "raw_buffer"

\* the files under the archive_dir of a reader
ArchiveDir(root, channel_name) ==
    LET entries == root[ArchiveDirRoot(root, channel_name)]
        name == SpacesToUnderscores(channel_name)
    IN IF name \in DOMAIN entries THEN entries[name].files ELSE {}

\* p.iterdir() of one root, in the listing order
IterDir(entries, order) ==
    LET names == SelectSeq(<<"CHU 3.33 MHz", "CHU_3.33_MHz", "WWV 10 MHz",
                             "WWV 5 MHz", "WWV_10 MHz", "WWV_10_MHz",
                             "WWV_5_MHz">>,
                           LAMBDA n : n \in DOMAIN entries)
    IN IF order = "ascending" THEN names ELSE Reverse(names)

RECURSIVE AppendNew(_, _, _)
\* lines 56-64: the names of the directories of a root, underscores turned
\* into spaces, appended to the list unless already in it
AppendNew(found, entries, listing) ==
    IF listing = <<>> THEN found
    ELSE LET d == Head(listing)
             name == UnderscoresToSpaces(d)
             seen == \E k \in DOMAIN found : found[k] = name
         IN AppendNew(IF entries[d].is_dir /\ ~seen
                      THEN Append(found, name) ELSE found,
                      entries, Tail(listing))

RECURSIVE AppendAll(_, _, _)
\* (mutant) every directory adds an entry, and the list is only sorted
AppendAll(found, entries, listing) ==
    IF listing = <<>> THEN found
    ELSE AppendAll(IF entries[Head(listing)].is_dir
                   THEN Append(found, UnderscoresToSpaces(Head(listing)))
                   ELSE found,
                   entries, Tail(listing))

\* sorted() of a list of channel names
SortedNames(names) ==
    LET ranks == [k \in DOMAIN names |-> ChannelIndex(names[k])]
        kept == {ranks[k] : k \in DOMAIN ranks}
        order == Ascending(kept)
    IN [k \in DOMAIN order |-> ChannelNames[order[k]]]

\* (mutant) discovery without the set of line 67
DiscoverRepeated(root, o1, o2) ==
    LET found == AppendAll(AppendAll(<<>>, root["raw_archive"],
                                     IterDir(root["raw_archive"], o1)),
                           root["raw_buffer"], IterDir(root["raw_buffer"], o2))
        ranks == [k \in DOMAIN found |-> ChannelIndex(found[k])]
        sorted == WithRepeats(ranks, Ascending({ranks[k] : k \in DOMAIN ranks}))
    IN [k \in DOMAIN sorted |-> ChannelNames[sorted[k]]]

\* lines 43-67, no channel given: the channels found under both roots
Discover(root, o1, o2) ==
    LET found == AppendNew(AppendNew(<<>>, root["raw_archive"],
                                     IterDir(root["raw_archive"], o1)),
                           root["raw_buffer"], IterDir(root["raw_buffer"], o2))
    IN SortedNames(found)

\* a data root that holds, under raw_archive, the archive of each channel
\* of a list
TreeOf(chans, arch) ==
    [raw_archive |->
        [n \in {SpacesToUnderscores(chans[k]) : k \in DOMAIN chans} |->
            Directory(arch[UnderscoresToSpaces(n)])],
     raw_buffer |-> NoEntries]

\* ------------------------------------------------------------ state

VARIABLES
    data_root,            \* the entries of raw_archive/ and raw_buffer/
    archive,              \* channel -> the files under its reader's archive_dir
    buffer,               \* channel -> the DecimatedBuffer of the day
    pc,                   \* position of process_day
    channels_to_process,  \* decimation_pipeline.py:43-67
    ci,                   \* index of the channel of the for loop at line 75
    input_rate,           \* locals of _process_channel_day
    decimator,
    minutes,              \* the list read_day iterates over
    mi,                   \* number of minutes read_day has yielded
    minute_ts,
    samples,
    meta,
    decimated_chunk,
    gap_info,
    minutes_processed,
    samples_generated,
    gaps_detected,
    runs,                 \* completed process_day calls
    calls,                \* history: the calls made by the current process_day
    bufferAtStart,        \* history: the buffers when process_day was called
    decimatorAtRead,      \* history: the decimator when the minute was read
    workers,              \* channel -> the locals of its concurrent run
    task,                 \* the upload task handed to cleanup_handler
    dataset,              \* the entries of the task's dataset directory
    products,             \* the entries of <data_root>/products
    handler               \* position of cleanup_handler

vars == <<data_root, archive, buffer, pc, channels_to_process, ci, input_rate, decimator,
          minutes, mi, minute_ts, samples, meta, decimated_chunk, gap_info,
          minutes_processed, samples_generated, gaps_detected, runs, calls,
          bufferAtStart, decimatorAtRead, workers, task, dataset, products,
          handler>>

\* the state of the concurrent runs and of the upload cleanup
elsewhere == <<workers, task, dataset, products, handler>>

locals == <<input_rate, decimator, minutes, mi, minute_ts, samples, meta,
            decimated_chunk, gap_info, minutes_processed, samples_generated,
            gaps_detected, decimatorAtRead>>

\* the date string handed to process_day
date_str == TestDay

\* one entry of the call history
Call(op, ch, ts, ok, n) == [op |-> op, ch |-> ch, ts |-> ts, ok |-> ok, n |-> n]

Channel == channels_to_process[ci]

\* ------------------------------------------------------------ inputs

\* the positions of the day directory that may hold files
Positions == 1..NumMinutes

\* a file whose stem is no minute boundary
MisalignedStem == DayStart + SecondsPerMinute + 30
MisalignedKinds ==
    {{}, {PayloadFile(TestDay, MisalignedStem, "bin", TRUE,
                      FullMinute(DefaultRate), 8)}}

\* a file of the next day, present in this day's directory and in its own
NextDayStem == DayStart + SecondsPerDay
NextDayKinds ==
    {{}, {PayloadFile(TestDay, NextDayStem, "bin.tmp", TRUE, 0, 0),
          PayloadFile(TestDay + 1, NextDayStem, "bin", TRUE,
                      FullMinute(DefaultRate), 9)}}

\* the contents position i may have
KindsAt(i) ==
    MinuteKinds(TestDay, MinuteStart(i))
      \cup (IF i = 1 THEN RateKinds(TestDay, MinuteStart(i)) ELSE {})

RECURSIVE ArchivesUpTo(_)
ArchivesUpTo(n) ==
    IF n = 0 THEN {{}}
    ELSE {a \cup k : a \in ArchivesUpTo(n - 1), k \in KindsAt(n)}

\* the archives of one channel: any contents at each minute position, with
\* or without a misaligned file and a file of the next day
DayArchives ==
    {a \cup mis \cup nxt :
        a \in ArchivesUpTo(NumMinutes), mis \in MisalignedKinds,
        nxt \in NextDayKinds}

\* ------------------------------------------------------------ DecimationPipeline

\* a run that has not started
IdleWorker ==
    [pc |-> "Off", input_rate |-> 0, decimator |-> NewDecimator,
     minutes |-> <<>>, mi |-> 0, minute_ts |-> 0, samples |-> None,
     meta |-> None, decimated_chunk |-> None, gap_info |-> 0,
     minutes_processed |-> 0, samples_generated |-> 0, gaps_detected |-> 0,
     overlap |-> FALSE]

\* no concurrent run and no cleanup is under way
InitElsewhere ==
    /\ workers = [ch \in Channels |-> IdleWorker]
    /\ task = None
    /\ dataset = None
    /\ products = <<>>
    /\ handler = "Off"

InitLocals ==
    /\ input_rate = 0
    /\ decimator = NewDecimator
    /\ minutes = <<>>
    /\ mi = 0
    /\ minute_ts = 0
    /\ samples = None
    /\ meta = None
    /\ decimated_chunk = None
    /\ gap_info = 0
    /\ minutes_processed = 0
    /\ samples_generated = 0
    /\ gaps_detected = 0
    /\ decimatorAtRead = NewDecimator

\* the state before the first process_day call, for a list of channels and
\* the archive of each
InitWith(chans, arch) ==
    /\ channels_to_process = chans
    /\ data_root = TreeOf(chans, arch)
    /\ archive = arch
    /\ buffer = [ch \in Channels |-> EmptyBuffer]
    /\ bufferAtStart = [ch \in Channels |-> EmptyBuffer]
    /\ pc = "Idle"
    /\ ci = 0
    /\ runs = 0
    /\ calls = <<>>
    /\ InitLocals
    /\ InitElsewhere

\* process_day(date_str, channel) is called: lines 38-73
ProcessDay ==
    /\ pc = "Idle"
    /\ runs < MaxRuns
    /\ channels_to_process /= <<>>
    /\ pc' = "Channel"
    /\ ci' = 1
    /\ calls' = <<>>
    /\ bufferAtStart' = buffer
    /\ UNCHANGED <<elsewhere, data_root, archive, buffer, channels_to_process, runs, locals>>

\* process_day(date_str) is called with no channel: lines 38-73, the
\* channels are discovered and, when there is none, the call returns
ProcessDayDiscover ==
    /\ pc = "Idle"
    /\ runs < MaxRuns
    /\ \E o1 \in ListingOrders, o2 \in ListingOrders :
         channels_to_process' = Discover(data_root, o1, o2)
    /\ calls' = <<>>
    /\ bufferAtStart' = buffer
    /\ IF channels_to_process' = <<>>
       THEN /\ runs' = runs + 1
            /\ UNCHANGED <<pc, ci>>
       ELSE /\ pc' = "Channel"
            /\ ci' = 1
            /\ UNCHANGED runs
    /\ UNCHANGED <<elsewhere, data_root, archive, buffer, locals>>

\* (mutant) the decimator of the previous run is kept
ReusedDecimator(previous) == previous

\* (mutant) the filter history of the previous run is kept
KeepHistory(previous) == [hist |-> previous.hist, phase |-> 0]

\* line 93: every run of a channel gets a decimator of its own
DecimatorForRun(previous) == NewDecimator

\* lines 75-97 and raw_reader.py:33-45, 161-162: the reader (with its
\* archive_dir), the buffer and the decimator of the channel are created
\* and read_day lists the minutes
StartChannel ==
    /\ pc = "Channel"
    /\ ci <= Len(channels_to_process)
    /\ \E o1 \in ListingOrders, o2 \in ListingOrders :
         LET files == ArchiveDir(data_root, Channel) IN
         /\ ~get_sample_rate_raises(files, date_str, o1)
         /\ ~decimator_init_raises(get_sample_rate(files, date_str, o1))
         /\ input_rate' = get_sample_rate(files, date_str, o1)
         /\ minutes' = get_available_minutes(files, date_str, o2)
         /\ archive' = [archive EXCEPT ![Channel] = files]
    /\ decimator' = DecimatorForRun(decimator)
    /\ decimatorAtRead' = DecimatorForRun(decimator)
    /\ mi' = 0
    /\ minute_ts' = 0
    /\ samples' = None
    /\ meta' = None
    /\ decimated_chunk' = None
    /\ gap_info' = 0
    /\ minutes_processed' = 0
    /\ samples_generated' = 0
    /\ gaps_detected' = 0
    /\ calls' = Append(calls, Call("start", Channel, 0, TRUE, 0))
    /\ pc' = "Reading"
    /\ UNCHANGED <<elsewhere, data_root, buffer, channels_to_process, ci, runs, bufferAtStart>>

\* (mutant) the exception of one channel ends the loop over the n channels
AbortAfterFailure(i, n) == n + 1

\* lines 75-79: the except clause is inside the loop, which goes on with
\* the next of the n channels
AfterFailure(i, n) == i + 1

\* (mutant) the rate is checked by the first process call, not by the
\* constructor
StartChannelRaisesLate ==
    /\ pc = "Channel"
    /\ ci <= Len(channels_to_process)
    /\ \E o1 \in ListingOrders :
         LET files == ArchiveDir(data_root, Channel) IN
         /\ \/ get_sample_rate_raises(files, date_str, o1)
            \/ decimator_init_raises(get_sample_rate(files, date_str, o1))
         /\ archive' = [archive EXCEPT ![Channel] = files]
    /\ calls' = calls \o <<Call("process", Channel, 0, FALSE, 0),
                           Call("failed", Channel, 0, FALSE, 0)>>
    /\ ci' = AfterFailure(ci, Len(channels_to_process))
    /\ UNCHANGED <<elsewhere, data_root, buffer, channels_to_process, pc, runs, bufferAtStart,
                   locals>>

\* lines 76-79: get_sample_rate or the decimator's constructor raises; the
\* exception is logged and the loop goes on with the next channel
StartChannelRaises ==
    /\ pc = "Channel"
    /\ ci <= Len(channels_to_process)
    /\ \E o1 \in ListingOrders :
         LET files == ArchiveDir(data_root, Channel) IN
         /\ \/ get_sample_rate_raises(files, date_str, o1)
            \/ decimator_init_raises(get_sample_rate(files, date_str, o1))
         /\ archive' = [archive EXCEPT ![Channel] = files]
    /\ calls' = Append(calls, Call("failed", Channel, 0, FALSE, 0))
    /\ ci' = AfterFailure(ci, Len(channels_to_process))
    /\ UNCHANGED <<elsewhere, data_root, buffer, channels_to_process, pc, runs, bufferAtStart,
                   locals>>

\* (mutant) the generator stops one minute short
ExhaustedEarly(yielded, listed) == yielded + 1 >= Len(listed)

\* raw_reader.py:164: the for loop of read_day has yielded every minute
Exhausted(yielded, listed) == yielded >= Len(listed)

\* line 100 and raw_reader.py:164-166: read_day yields the next minute
ReadMinute ==
    /\ pc = "Reading"
    /\ ~Exhausted(mi, minutes)
    /\ LET ts == minutes[mi + 1]
           got == read_minute(archive[Channel], ts)
       IN /\ minute_ts' = ts
          /\ samples' = got.samples
          /\ meta' = got.metadata
          /\ calls' = Append(calls, Call("read", Channel, ts,
                 ~IsNone(got.samples),
                 IF IsNone(got.samples) THEN 0 ELSE got.samples[1].len))
    /\ mi' = mi + 1
    /\ decimated_chunk' = None
    /\ gap_info' = 0
    /\ decimatorAtRead' = decimator
    /\ pc' = "Read"
    /\ UNCHANGED <<elsewhere, data_root, archive, buffer, channels_to_process, ci, input_rate, decimator,
                   minutes, minutes_processed, samples_generated, gaps_detected,
                   runs, bufferAtStart>>

\* (mutant) the length test of line 104 dropped
HasSamplesIgnoresLength(smp) == ~IsNone(smp)

\* line 104: samples is not None and len(samples) > 0
HasSamples(smp) == ~IsNone(smp) /\ smp[1].len > 0

\* lines 109-110: the upstream gap count of a decimated minute
GapInfo(md) ==
    IF Truthy(md) /\ "gap_samples" \in DOMAIN md[1]
    THEN md[1]["gap_samples"] ELSE 0

\* lines 104-110: a minute with samples is decimated
Decimate ==
    /\ pc = "Read"
    /\ HasSamples(samples)
    /\ decimated_chunk' = Some(process_output(decimator, input_rate, samples[1]))
    /\ decimator' = process_state(decimator, input_rate, samples[1])
    /\ gap_info' = GapInfo(meta)
    /\ calls' = Append(calls, Call("process", Channel, minute_ts, TRUE,
                   process_output(decimator, input_rate, samples[1]).len))
    /\ pc' = "Decimated"
    /\ UNCHANGED <<elsewhere, data_root, archive, buffer, channels_to_process, ci, input_rate, minutes,
                   mi, minute_ts, samples, meta, minutes_processed,
                   samples_generated, gaps_detected, runs, bufferAtStart,
                   decimatorAtRead>>

\* (mutant) the filter is reset when a minute is missing
ResetOnGap(dec) == NewDecimator

\* lines 111-123: the else branch is `pass`, the decimator is left alone
DecimatorAfterGap(dec) == dec

\* (mutant) the loop waits for the samples of a missing minute
SkipGapWaits ==
    /\ pc = "Read"
    /\ ~HasSamples(samples)
    /\ UNCHANGED vars

\* lines 111-125: a minute without samples is skipped
SkipGap ==
    /\ pc = "Read"
    /\ ~HasSamples(samples)
    /\ decimator' = DecimatorAfterGap(decimator)
    /\ pc' = "Reading"
    /\ UNCHANGED <<elsewhere, data_root, archive, buffer, channels_to_process, ci, runs, calls,
                   bufferAtStart, input_rate, minutes, mi, minute_ts, samples,
                   meta, decimated_chunk, gap_info, minutes_processed,
                   samples_generated, gaps_detected, decimatorAtRead>>

\* (mutant) only a full-length chunk is handed to write_minute
HasFullChunk(chunk) == ~IsNone(chunk) /\ chunk[1].len = SAMPLES_PER_MINUTE

\* line 125: decimated_chunk is not None and len(decimated_chunk) > 0
HasChunk(chunk) == ~IsNone(chunk) /\ chunk[1].len > 0

\* (mutant) the counters grow whatever write_minute returned
CountAlways(success, counter, by) == counter + by

\* (mutant) a successful write adds one to either counter
CountOne(success, counter, by) == IF success THEN counter + 1 ELSE counter

\* lines 148-150: a counter grows when write_minute succeeded
CountIf(success, counter, by) == IF success THEN counter + by ELSE counter

\* (mutant) the defaults are passed whatever the metadata hold
WriteDefaults(buf, ts, chunk, md, gaps) ==
    write_minute(buf, date_str, ts, chunk, DefaultDClock, DefaultUncertainty,
                 DefaultGrade, gaps)

\* lines 129-146: the write_minute call, with the metadata of the minute
\* or the defaults
WriteCall(buf, ts, chunk, md, gaps) ==
    LET d_clock == IF Truthy(md)
                   THEN Get(md[1], "d_clock_ms", DefaultDClock)
                   ELSE DefaultDClock
        uncertainty == IF Truthy(md)
                       THEN Get(md[1], "uncertainty_ms", DefaultUncertainty)
                       ELSE DefaultUncertainty
        grade == IF Truthy(md)
                 THEN Get(md[1], "quality_grade", DefaultGrade)
                 ELSE DefaultGrade
    IN write_minute(buf, date_str, ts, chunk, d_clock, uncertainty, grade, gaps)

\* lines 125-150: the decimated minute is handed to write_minute
WriteMinute ==
    /\ pc = "Decimated"
    /\ HasChunk(decimated_chunk)
    /\ LET success == write_accepts(date_str, minute_ts, decimated_chunk[1])
       IN /\ buffer' = [buffer EXCEPT ![Channel] =
                 WriteCall(@, minute_ts, decimated_chunk[1], meta, gap_info)]
          /\ calls' = Append(calls, Call("write", Channel, minute_ts, success,
                                         gap_info))
          /\ minutes_processed' = CountIf(success, minutes_processed, 1)
          /\ samples_generated' =
                 CountIf(success, samples_generated, decimated_chunk[1].len)
    /\ pc' = "Reading"
    /\ UNCHANGED <<elsewhere, data_root, archive, channels_to_process, ci, input_rate, decimator,
                   minutes, mi, minute_ts, samples, meta, decimated_chunk,
                   gap_info, gaps_detected, runs, bufferAtStart, decimatorAtRead>>

\* line 125: an empty decimated chunk is not written
SkipWrite ==
    /\ pc = "Decimated"
    /\ ~HasChunk(decimated_chunk)
    /\ pc' = "Reading"
    /\ UNCHANGED <<elsewhere, data_root, archive, buffer, channels_to_process, ci, runs, calls,
                   bufferAtStart, locals>>

\* line 156: read_day is exhausted, the summary is logged and the channel
\* loop goes on
FinishChannel ==
    /\ pc = "Reading"
    /\ Exhausted(mi, minutes)
    /\ calls' = Append(calls, Call("summary", Channel, 0, TRUE, minutes_processed))
    /\ ci' = ci + 1
    /\ pc' = "Channel"
    /\ UNCHANGED <<elsewhere, data_root, archive, buffer, channels_to_process, runs, bufferAtStart,
                   locals>>

\* line 75: the channel loop ends and process_day returns
Return ==
    /\ pc = "Channel"
    /\ ci > Len(channels_to_process)
    /\ pc' = "Idle"
    /\ runs' = runs + 1
    /\ UNCHANGED <<elsewhere, data_root, archive, buffer, channels_to_process, ci, calls,
                   bufferAtStart, locals>>

Next ==
    \/ ProcessDay
    \/ ProcessDayDiscover
    \/ StartChannel
    \/ StartChannelRaises
    \/ ReadMinute
    \/ Decimate
    \/ SkipGap
    \/ WriteMinute
    \/ SkipWrite
    \/ FinishChannel
    \/ Return

\* one channel, named in the call, with any archive
Init ==
    \E a \in DayArchives :
        InitWith(<<"WWV 10 MHz">>,
                 [ch \in Channels |-> IF ch = "WWV 10 MHz" THEN a ELSE {}])

Spec == Init /\ [][Next]_vars

\* the archives of a channel when several channels are processed: any first
\* minute, with or without a second, full one
ChannelArchives ==
    {a \cup b :
        a \in KindsAt(1),
        b \in {{}, FullMinuteWithMeta(TestDay, MinuteStart(2))}}

\* the lists of channels line 67 can leave: distinct names, sorted
ChannelLists ==
    {s \in UNION {[1..n -> Channels] : n \in 1..MaxChannels} :
        \A i \in DOMAIN s : \A j \in DOMAIN s :
            i < j => ChannelIndex(s[i]) < ChannelIndex(s[j])}

\* several channels, each with an archive of its own
InitChannels ==
    \E chans \in ChannelLists : \E arch \in [Channels -> ChannelArchives] :
        /\ \A ch \in Channels :
             (\A k \in DOMAIN chans : chans[k] /= ch) => arch[ch] = {}
        /\ InitWith(chans, arch)

SpecChannels == InitChannels /\ [][Next]_vars

\* the steps of the minute loop of a channel (lines 100-156): a sequential
\* program takes its next step as long as it has one
MinuteStep ==
    \/ ReadMinute
    \/ Decimate
    \/ SkipGap
    \/ WriteMinute
    \/ SkipWrite
    \/ FinishChannel

\* one channel whose day directory holds whole-minute stems only
InitWholeMinutes ==
    \E a \in ArchivesUpTo(NumMinutes) :
        InitWith(<<"WWV 10 MHz">>,
                 [ch \in Channels |-> IF ch = "WWV 10 MHz" THEN a ELSE {}])

FairSpec == InitWholeMinutes /\ [][Next]_vars /\ WF_vars(MinuteStep)

\* ------------------------------------------------------------ integration test

\* test_integration_v2.py:41, the number of minutes setup_test_data writes
IntegrationMinutes == 10

\* setup_test_data: the same 20 kHz signal written to ten consecutive .bin
\* files, no metadata file
IntegrationArchive ==
    {PayloadFile(TestDay, MinuteStart(i), "bin", TRUE, FullMinute(TestRate), 10) :
        i \in 1..IntegrationMinutes}

\* the same recording with a metadata file per minute that declares its rate
DeclaredArchive ==
    IntegrationArchive \cup
    {JsonFile(TestDay, MinuteStart(i), TRUE, [sample_rate |-> JsonInt(TestRate)]) :
        i \in 1..IntegrationMinutes}

\* a zone one hour east of UTC
EastOffset == 3600

\* setup_test_data on a host in that zone: datetime.strptime(...).timestamp()
\* is the local midnight, so the stems start an hour before the UTC day of
\* the directory they are written to
LocalArchive ==
    {PayloadFile(TestDay, MinuteStart(i) - EastOffset, "bin", TRUE,
                 FullMinute(TestRate), 10) : i \in 1..IntegrationMinutes}

\* process_day(date_str, 'WWV 10 MHz') on the recording of the integration
\* test, on its declared variant, on the recording of a host east of UTC,
\* or on a short archive
InitEndToEnd ==
    \E a \in {IntegrationArchive, DeclaredArchive, LocalArchive}
              \cup ChannelArchives :
        InitWith(<<"WWV 10 MHz">>,
                 [ch \in Channels |-> IF ch = "WWV 10 MHz" THEN a ELSE {}])

SpecEndToEnd == InitEndToEnd /\ [][Next]_vars

\* ------------------------------------------------------------ encodings

\* number of minute positions of the day that hold files in the archives
\* of the reader's specification
ReaderMinutes == 2

\* The files one minute may have under its three encodings.  `ok` of a
\* compressed file says that it decodes here: the codec module is installed
\* and the payload is sound.

\* every encoding present and sound, each with samples of its own
AllEncodings(d, t) ==
    {PayloadFile(d, t, "bin", TRUE, FullMinute(DefaultRate), 11),
     PayloadFile(d, t, "bin.zst", TRUE, FullMinute(DefaultRate), 12),
     PayloadFile(d, t, "bin.lz4", TRUE, FullMinute(DefaultRate), 13),
     JsonFile(d, t, TRUE, [gap_samples |-> 1])}
\* a damaged .bin beside a sound .bin.zst, and metadata that does not parse
CorruptBin(d, t) ==
    {PayloadFile(d, t, "bin", FALSE, 0, 0),
     PayloadFile(d, t, "bin.zst", TRUE, FullMinute(DefaultRate), 12),
     JsonFile(d, t, FALSE, EmptyDict)}
\* an empty .bin and a .bin.zst that does not decode beside a sound .bin.lz4
OnlyLz4Decodes(d, t) ==
    {PayloadFile(d, t, "bin", TRUE, 0, 0),
     PayloadFile(d, t, "bin.zst", FALSE, 0, 0),
     PayloadFile(d, t, "bin.lz4", TRUE, FullMinute(DefaultRate), 13)}
ZstOnly(d, t) ==
    {PayloadFile(d, t, "bin.zst", TRUE, FullMinute(DefaultRate), 12)}
\* no encoding decodes, the metadata is readable
NoneDecodes(d, t) ==
    {PayloadFile(d, t, "bin", FALSE, 0, 0),
     PayloadFile(d, t, "bin.lz4", FALSE, 0, 0),
     JsonFile(d, t, TRUE, [gap_samples |-> 4])}
\* a .bin.zst that decodes to no samples beside a sound .bin.lz4
EmptyZst(d, t) ==
    {PayloadFile(d, t, "bin.zst", TRUE, 0, 0),
     PayloadFile(d, t, "bin.lz4", TRUE, FullMinute(DefaultRate), 13)}
\* a file "<t>.bin.tmp" and nothing else
TempOnly(d, t) == {PayloadFile(d, t, "bin.tmp", TRUE, 0, 0)}
\* a metadata file without payload
JsonOnly(d, t) == {JsonFile(d, t, TRUE, [gap_samples |-> 2])}

EncodingKinds(d, t) ==
    {{}, AllEncodings(d, t), CorruptBin(d, t), OnlyLz4Decodes(d, t),
     ZstOnly(d, t), NoneDecodes(d, t), EmptyZst(d, t), TempOnly(d, t),
     JsonOnly(d, t), TruncatedMinute(d, t), FullMinuteWithMeta(d, t)}

RECURSIVE ReaderArchivesUpTo(_)
\* any of these contents, or one that declares a sample rate, at each
\* minute position
ReaderArchivesUpTo(n) ==
    IF n = 0 THEN {{}}
    ELSE {a \cup k : a \in ReaderArchivesUpTo(n - 1),
                     k \in EncodingKinds(TestDay, MinuteStart(n))
                             \cup RateKinds(TestDay, MinuteStart(n))}

\* with or without a file whose stem is off the minute grid
ReaderArchives ==
    {a \cup mis : a \in ReaderArchivesUpTo(ReaderMinutes),
                  mis \in MisalignedKinds}

\* one channel whose minutes are stored under any mix of encodings
InitReader ==
    \E a \in ReaderArchives :
        InitWith(<<"WWV 10 MHz">>,
                 [ch \in Channels |-> IF ch = "WWV 10 MHz" THEN a ELSE {}])

SpecReader == InitReader /\ [][Next]_vars

\* ------------------------------------------------------------ discovery

\* what a channel directory holds under raw_archive: a full minute and an
\* undecodable one
ArchiveSide ==
    FullMinuteFiles(TestDay, MinuteStart(1)) \cup CorruptMinute(TestDay, MinuteStart(2))
\* and under raw_buffer: other samples, for other minutes
BufferSide ==
    FullMinuteWithMeta(TestDay, MinuteStart(1))
      \cup TruncatedMinute(TestDay, MinuteStart(3))
\* a day whose first minute declares a sample rate int() rejects
FaultySide ==
    {PayloadFile(TestDay, MinuteStart(1), "bin", TRUE, FullMinute(DefaultRate), 6),
     JsonFile(TestDay, MinuteStart(1), TRUE, [sample_rate |-> JsonNull])}

SideOf(sub) == IF sub = "raw_archive" THEN ArchiveSide ELSE BufferSide

\* the entries a root may have under three names; None stands for no entry
UnderscoreKinds(sub) ==
    {None, Some(Directory({})), Some(Directory(SideOf(sub))), Some(PlainFile)}
SpaceKinds(sub) == {None, Some(Directory(SideOf(sub)))}
OtherChannelKinds(sub) ==
    {None, Some(Directory(IF sub = "raw_archive" THEN FaultySide ELSE BufferSide))}

\* the root with entry w at WWV_10_MHz, s at "WWV 10 MHz", c at CHU_3.33_MHz
Entries(w, s, c) ==
    LET present == (IF IsNone(w) THEN {} ELSE {"WWV_10_MHz"})
                     \cup (IF IsNone(s) THEN {} ELSE {"WWV 10 MHz"})
                     \cup (IF IsNone(c) THEN {} ELSE {"CHU_3.33_MHz"})
    IN [n \in present |->
          IF n = "WWV_10_MHz" THEN w[1]
          ELSE IF n = "WWV 10 MHz" THEN s[1] ELSE c[1]]

RootKinds(sub) ==
    {Entries(w, s, c) : w \in UnderscoreKinds(sub), s \in SpaceKinds(sub),
                        c \in OtherChannelKinds(sub)}

\* a pipeline on any such data root, before process_day is called with no
\* channel
InitDiscovery ==
    /\ \E a \in RootKinds("raw_archive") : \E b \in RootKinds("raw_buffer") :
         data_root = [raw_archive |-> a, raw_buffer |-> b]
    /\ channels_to_process = <<>>
    /\ archive = [ch \in Channels |-> {}]
    /\ buffer = [ch \in Channels |-> EmptyBuffer]
    /\ bufferAtStart = [ch \in Channels |-> EmptyBuffer]
    /\ pc = "Idle"
    /\ ci = 0
    /\ runs = 0
    /\ calls = <<>>
    /\ InitLocals
    /\ InitElsewhere

SpecDiscovery == InitDiscovery /\ [][Next]_vars

\* ------------------------------------------------------------ aborted runs

\* The process is interrupted or killed while read_day is about to yield
\* the next minute (lines 100-150): the exception is no Exception, so
\* line 78 does not catch it and process_day ends without a summary.  The
\* slots written so far stay in the channel's buffer.
Abort ==
    /\ pc = "Reading"
    /\ ~Exhausted(mi, minutes)
    /\ calls' = Append(calls, Call("abort", Channel, minute_ts, FALSE, mi))
    /\ pc' = "Idle"
    /\ UNCHANGED <<elsewhere, data_root, archive, buffer, channels_to_process, ci, runs,
                   bufferAtStart, locals>>

NextWithAbort == Next \/ Abort

\* the archives of the reader, with runs that may be aborted and repeated
SpecAbort == InitReader /\ [][NextWithAbort]_vars

\* ------------------------------------------------------------ concurrent runs

\* Two processes run _process_channel_day (lines 81-156) for two channels
\* at once, each on a pipeline of its own data root.  A run's locals are
\* its entry of workers; the archive and the buffer of a channel are the
\* files named after the channel.
ConcurrentChannels == {"CHU 3.33 MHz", "WWV 10 MHz"}

sequential == <<pc, channels_to_process, ci, runs, calls, bufferAtStart, locals>>
cleanup == <<task, dataset, products, handler>>

\* (mutant) one decimator, kept by the pipeline, serves every run
PipelineDecimator(ch) == "WWV 10 MHz"

\* line 93: the decimator is a local of the run
DecimatorOf(ch) == ch

\* some other run is between its start and its end
OthersRunning(ch) ==
    \E o \in ConcurrentChannels \ {ch} :
        workers[o].pc \in {"Reading", "Read", "Decimated"}

\* history: the run has taken a step while another run was under way
Overlap(ch) == workers[ch].overlap \/ OthersRunning(ch)

\* lines 85-97 for channel ch
RunStart(ch) ==
    /\ workers[ch].pc = "Off"
    /\ \E o1 \in ListingOrders, o2 \in ListingOrders :
         LET files == ArchiveDir(data_root, ch) IN
         /\ ~get_sample_rate_raises(files, date_str, o1)
         /\ ~decimator_init_raises(get_sample_rate(files, date_str, o1))
         /\ archive' = [archive EXCEPT ![ch] = files]
         /\ workers' = [workers EXCEPT
              ![ch] = [IdleWorker EXCEPT
                         !.pc = "Reading",
                         !.input_rate = get_sample_rate(files, date_str, o1),
                         !.minutes = get_available_minutes(files, date_str, o2),
                         !.overlap = Overlap(ch)],
              ![DecimatorOf(ch)].decimator = NewDecimator]
    /\ UNCHANGED <<cleanup, data_root, buffer, sequential>>

\* lines 89-93 raise for channel ch
RunRaises(ch) ==
    /\ workers[ch].pc = "Off"
    /\ \E o1 \in ListingOrders :
         LET files == ArchiveDir(data_root, ch) IN
         /\ \/ get_sample_rate_raises(files, date_str, o1)
            \/ decimator_init_raises(get_sample_rate(files, date_str, o1))
         /\ archive' = [archive EXCEPT ![ch] = files]
    /\ workers' = [workers EXCEPT ![ch].pc = "Failed",
                                  ![ch].overlap = Overlap(ch)]
    /\ UNCHANGED <<cleanup, data_root, buffer, sequential>>

\* line 100: read_day of channel ch yields its next minute
RunRead(ch) ==
    /\ workers[ch].pc = "Reading"
    /\ ~Exhausted(workers[ch].mi, workers[ch].minutes)
    /\ LET ts == workers[ch].minutes[workers[ch].mi + 1]
           got == read_minute(archive[ch], ts)
       IN workers' = [workers EXCEPT
            ![ch].minute_ts = ts,
            ![ch].samples = got.samples,
            ![ch].meta = got.metadata,
            ![ch].mi = @ + 1,
            ![ch].decimated_chunk = None,
            ![ch].gap_info = 0,
            ![ch].overlap = Overlap(ch),
            ![ch].pc = "Read"]
    /\ UNCHANGED <<cleanup, data_root, archive, buffer, sequential>>

\* lines 104-110 for channel ch
RunDecimate(ch) ==
    /\ workers[ch].pc = "Read"
    /\ HasSamples(workers[ch].samples)
    /\ LET dec == workers[DecimatorOf(ch)].decimator
           rate == workers[ch].input_rate
           smp == workers[ch].samples[1]
       IN workers' = [workers EXCEPT
            ![ch].decimated_chunk = Some(process_output(dec, rate, smp)),
            ![ch].gap_info = GapInfo(workers[ch].meta),
            ![ch].overlap = Overlap(ch),
            ![ch].pc = "Decimated",
            ![DecimatorOf(ch)].decimator = process_state(dec, rate, smp)]
    /\ UNCHANGED <<cleanup, data_root, archive, buffer, sequential>>

\* lines 111-125 for channel ch
RunSkipGap(ch) ==
    /\ workers[ch].pc = "Read"
    /\ ~HasSamples(workers[ch].samples)
    /\ workers' = [workers EXCEPT
         ![ch].overlap = Overlap(ch),
         ![ch].pc = "Reading",
         ![DecimatorOf(ch)].decimator = DecimatorAfterGap(@)]
    /\ UNCHANGED <<cleanup, data_root, archive, buffer, sequential>>

\* lines 125-150 for channel ch
RunWrite(ch) ==
    /\ workers[ch].pc = "Decimated"
    /\ HasChunk(workers[ch].decimated_chunk)
    /\ LET w == workers[ch]
           success == write_accepts(date_str, w.minute_ts, w.decimated_chunk[1])
       IN /\ buffer' = [buffer EXCEPT ![ch] =
                 WriteCall(@, w.minute_ts, w.decimated_chunk[1], w.meta,
                           w.gap_info)]
          /\ workers' = [workers EXCEPT
               ![ch].minutes_processed = CountIf(success, @, 1),
               ![ch].samples_generated =
                   CountIf(success, @, w.decimated_chunk[1].len),
               ![ch].overlap = Overlap(ch),
               ![ch].pc = "Reading"]
    /\ UNCHANGED <<cleanup, data_root, archive, sequential>>

\* line 125 for channel ch: an empty chunk is not written
RunSkipWrite(ch) ==
    /\ workers[ch].pc = "Decimated"
    /\ ~HasChunk(workers[ch].decimated_chunk)
    /\ workers' = [workers EXCEPT ![ch].overlap = Overlap(ch),
                                  ![ch].pc = "Reading"]
    /\ UNCHANGED <<cleanup, data_root, archive, buffer, sequential>>

\* line 156 for channel ch
RunFinish(ch) ==
    /\ workers[ch].pc = "Reading"
    /\ Exhausted(workers[ch].mi, workers[ch].minutes)
    /\ workers' = [workers EXCEPT ![ch].overlap = Overlap(ch),
                                  ![ch].pc = "Done"]
    /\ UNCHANGED <<cleanup, data_root, archive, buffer, sequential>>

NextConcurrent ==
    \E ch \in ConcurrentChannels :
        \/ RunStart(ch)
        \/ RunRaises(ch)
        \/ RunRead(ch)
        \/ RunDecimate(ch)
        \/ RunSkipGap(ch)
        \/ RunWrite(ch)
        \/ RunSkipWrite(ch)
        \/ RunFinish(ch)

\* two channels, each with an archive of its own, before either run starts
InitConcurrent ==
    \E arch \in [Channels -> ChannelArchives \cup {{}}] :
        /\ \A ch \in Channels :
             IF ch \in ConcurrentChannels THEN arch[ch] /= {} ELSE arch[ch] = {}
        /\ InitWith(<<"CHU 3.33 MHz", "WWV 10 MHz">>, arch)

SpecConcurrent == InitConcurrent /\ [][NextConcurrent]_vars

\* ------------------------------------------------------------ changing archive

\* the files of channel directory name under raw_archive without those of
\* minute ts
WithoutMinute(root, name, ts) ==
    [root EXCEPT !["raw_archive"][name].files = {f \in @ : f.stem /= ts}]

\* Between two process_day calls the files of one minute leave the raw
\* archive (rotation of the recorder's buffer, a file found corrupt and
\* removed).  The next run lists the directory afresh (raw_reader.py:57-79)
\* and opens the channel's buffer as the earlier run left it (line 86).
LoseMinute ==
    /\ pc = "Idle"
    /\ runs >= 1
    /\ \E name \in DOMAIN data_root["raw_archive"] :
         \E ts \in {f.stem : f \in data_root["raw_archive"][name].files} :
           data_root' = WithoutMinute(data_root, name, ts)
    /\ UNCHANGED <<elsewhere, archive, buffer, sequential>>

NextWithLoss == Next \/ LoseMinute

\* the archives of the reader, with minutes that may be gone at the next run
SpecLoss == InitReader /\ [][NextWithLoss]_vars

\* ------------------------------------------------------------ upload cleanup

\* (cli.py:235-310)  Paths are the sequences of their names below '/'.
PathName(p) == IF p = <<>> THEN "" ELSE p[Len(p)]
PathParent(p) == IF p = <<>> THEN <<>> ELSE SubSeq(p, 1, Len(p) - 1)

\* the directory the recorder keeps its products in
ProductsPath == <<"data", "products">>

\* One entry of a directory; deletable tells whether rmtree or unlink
\* succeeds on it, present whether it is still there.
Item(is_dir, deletable) ==
    [is_dir |-> is_dir, deletable |-> deletable, present |-> TRUE]

\* one entry of products: a plain file, or a channel directory with or
\* without a decimated directory and the files of that directory
ChannelDir(decimated, files) ==
    [is_dir |-> TRUE, decimated |-> decimated, files |-> files]
StrayFile == [is_dir |-> FALSE, decimated |-> FALSE, files |-> <<>>]

Token == ".upload_complete"

\* (mutant) the token is deleted like any other entry
SkipsNothing(name) == FALSE

\* lines 248-249: the entry the loop leaves alone
Skipped(name) == name = Token

\* lines 246-256: every entry but the token is deleted; a failure is logged
\* and the loop goes on
RemoveItems(entries) ==
    [n \in DOMAIN entries |->
        IF ~Skipped(n) /\ entries[n].deletable
        THEN [entries[n] EXCEPT !.present = FALSE]
        ELSE entries[n]]

\* (mutant) the date is used as it is given
KeepDashes(d) == d

\* line 263: str.replace('-', '') on the dates of the tasks
RemoveDashes(d) ==
    CASE d \in {"2025-12-18", "20251218"} -> "20251218"
      [] d \in {"2025-12-17", "20251217"} -> "20251217"

\* lines 295-296: f"{date_str}.bin" and f"{date_str}.json"
DatedName(d, ext) ==
    CASE d = "20251218" /\ ext = "bin" -> "20251218.bin"
      [] d = "20251218" /\ ext = "json" -> "20251218.json"
      [] d = "20251217" /\ ext = "bin" -> "20251217.bin"
      [] d = "20251217" /\ ext = "json" -> "20251217.json"
      [] d = "2025-12-18" /\ ext = "bin" -> "2025-12-18.bin"
      [] d = "2025-12-18" /\ ext = "json" -> "2025-12-18.json"

\* range(5) at line 276
WalkLength == 5

RECURSIVE FindUpload(_, _)
\* lines 274-279: the nearest of the path and its first parents that is
\* named upload
FindUpload(p, n) ==
    IF n = 0 THEN None
    ELSE IF PathName(p) = "upload" THEN Some(p)
    ELSE FindUpload(PathParent(p), n - 1)

Exists(files, n) == n \in DOMAIN files /\ files[n].present

\* lines 287-300 for one entry of products: the entry it leaves and
\* whether an unlink raised
CleanChannel(e, d) ==
    LET bin == DatedName(d, "bin")
        json == DatedName(d, "json")
    IN IF ~e.is_dir \/ ~e.decimated THEN [entry |-> e, raised |-> FALSE]
       ELSE IF Exists(e.files, bin) /\ ~e.files[bin].deletable
       THEN [entry |-> e, raised |-> TRUE]
       ELSE LET noBin == IF Exists(e.files, bin)
                         THEN [e.files EXCEPT ![bin].present = FALSE]
                         ELSE e.files
            IN IF Exists(noBin, json) /\ ~noBin[json].deletable
               THEN [entry |-> [e EXCEPT !.files = noBin], raised |-> TRUE]
               ELSE [entry |-> [e EXCEPT !.files =
                                   IF Exists(noBin, json)
                                   THEN [noBin EXCEPT ![json].present = FALSE]
                                   ELSE noBin],
                     raised |-> FALSE]

RECURSIVE CleanChannels(_, _, _)
\* lines 286-300: the loop over products; an unlink that raises ends the
\* handler at line 309
CleanChannels(prods, listing, d) ==
    IF listing = <<>> THEN prods
    ELSE LET r == CleanChannel(prods[Head(listing)], d)
             next == [prods EXCEPT ![Head(listing)] = r.entry]
         IN IF r.raised THEN next
            ELSE CleanChannels(next, Tail(listing), d)

\* products_dir.iterdir() in the listing order
IterProducts(prods, order) ==
    LET names == SelectSeq(<<"CHU_3.33_MHz", "README", "WWV_10_MHz">>,
                           LAMBDA n : n \in DOMAIN prods)
    IN IF order = "ascending" THEN names ELSE Reverse(names)

\* lines 262-307: the decimated files of the task's date, when the task has
\* a date and products is found next to upload
RemoveDecimated(t, prods, order) ==
    IF "date" \notin DOMAIN t.metadata THEN prods
    ELSE LET date == RemoveDashes(t.metadata["date"])
             upload_root == FindUpload(t.dataset_path, WalkLength)
         IN IF IsNone(upload_root) THEN prods
            ELSE IF Append(PathParent(upload_root[1]), "products") /= ProductsPath
            THEN prods
            ELSE CleanChannels(prods, IterProducts(prods, order), date)

\* cleanup_handler(task), lines 235-310
cleanup_handler ==
    /\ handler = "Called"
    /\ dataset' = IF IsNone(dataset) THEN dataset
                  ELSE Some(RemoveItems(dataset[1]))
    /\ \E order \in ListingOrders :
         products' = RemoveDecimated(task, products, order)
    /\ handler' = "Returned"
    /\ UNCHANGED <<task, workers, data_root, archive, buffer, pc,
                   channels_to_process, ci, runs, calls, bufferAtStart, locals>>

NextCleanup == cleanup_handler

\* the dataset paths of the tasks: the layout of the uploader
\* (upload/DATE/STATION/RECEIVER/OBS), a dataset directly under upload, one
\* a level deeper than the layout, one below a station named upload, and
\* one outside upload
StandardPath == <<"data", "upload", "20251218", "TEST_GRID", "REC@1", "OBS">>
ShallowPath == <<"data", "upload", "OBS">>
DeepPath == <<"data", "upload", "20251218", "TEST_GRID", "REC@1", "OBS", "ch0">>
NestedPath == <<"data", "upload", "20251218", "upload", "REC@1", "OBS">>
OutsidePath == <<"tmp", "OBS">>
DatasetPaths == {StandardPath, ShallowPath, DeepPath, NestedPath, OutsidePath}

\* task.metadata: with the date in either form, or without a date
TaskMetadata ==
    {[date |-> "2025-12-18"], [date |-> "20251218"], [station |-> "TEST"]}

\* the dataset directory: missing, or the token (or not) next to a data
\* directory and a properties file that can or cannot be deleted
Datasets ==
    {None} \cup
    {Some(entries) : entries \in
        {[n \in names |->
            IF n = Token THEN Item(FALSE, TRUE)
            ELSE IF n = "ch0" THEN Item(TRUE, d1)
            ELSE IF n = "metadata" THEN Item(TRUE, TRUE)
            ELSE Item(FALSE, d2)] :
         names \in {{Token, "ch0", "metadata"}, {"ch0", "drf.h5"},
                    {Token, "metadata", "drf.h5"}, {Token}},
         d1 \in BOOLEAN, d2 \in BOOLEAN}}

\* the decimated files of a channel
DayFiles ==
    [n \in {"20251218.bin", "20251218.json", "20251217.bin", "20251217.json"} |->
        Item(FALSE, TRUE)]
StuckBin == [DayFiles EXCEPT !["20251218.bin"].deletable = FALSE]
StuckJson == [DayFiles EXCEPT !["20251218.json"].deletable = FALSE]
OtherDayOnly == [n \in {"20251217.bin", "20251217.json"} |-> Item(FALSE, TRUE)]

\* products: up to two channel directories and a plain file
ProductTrees ==
    {[n \in names |->
        IF n = "WWV_10_MHz" THEN w
        ELSE IF n = "CHU_3.33_MHz" THEN c ELSE StrayFile] :
     names \in {{"WWV_10_MHz"}, {"WWV_10_MHz", "CHU_3.33_MHz"},
                {"WWV_10_MHz", "CHU_3.33_MHz", "README"}},
     w \in {ChannelDir(TRUE, DayFiles), ChannelDir(TRUE, StuckBin),
            ChannelDir(FALSE, <<>>), ChannelDir(TRUE, OtherDayOnly)},
     c \in {ChannelDir(TRUE, DayFiles), ChannelDir(TRUE, StuckJson)}}

\* the uploader calls cleanup_handler with a task
InitCleanup ==
    /\ task \in [dataset_path : DatasetPaths, metadata : TaskMetadata]
    /\ dataset \in Datasets
    /\ products \in ProductTrees
    /\ handler = "Called"
    /\ workers = [ch \in Channels |-> IdleWorker]
    /\ channels_to_process = <<>>
    /\ data_root = TreeOf(<<>>, [ch \in Channels |-> {}])
    /\ archive = [ch \in Channels |-> {}]
    /\ buffer = [ch \in Channels |-> EmptyBuffer]
    /\ bufferAtStart = [ch \in Channels |-> EmptyBuffer]
    /\ pc = "Idle"
    /\ ci = 0
    /\ runs = 0
    /\ calls = <<>>
    /\ InitLocals

SpecCleanup == InitCleanup /\ [][NextCleanup]_vars

\* ------------------------------------------------------------ properties

LastCall == calls[Len(calls)]
OneChannel == "WWV 10 MHz"

\* a yielded minute whose samples are None or zero-length
IsGapRead(e) == e.op = "read" /\ (~e.ok \/ e.n = 0)

\* the calls of kind op made so far for channel ch
CallsOf(op, ch) == {i \in DOMAIN calls : calls[i].op = op /\ calls[i].ch = ch}

\* C1: a yielded minute whose samples are None or zero-length gets no
\* decimator.process and no write_minute call, and the decimator after the
\* minute is the decimator before it.
C1_GapMinuteUntouched ==
    /\ \A i \in DOMAIN calls :
         IsGapRead(calls[i]) =>
           \A j \in DOMAIN calls :
             ~(/\ calls[j].op \in {"process", "write"}
               /\ calls[j].ch = calls[i].ch
               /\ calls[j].ts = calls[i].ts)
    /\ (calls /= <<>> /\ IsGapRead(LastCall)) => decimator = decimatorAtRead

\* a zero-length minute has been skipped after an undecodable one, with
\* filter history in the decimator
C1_Witness ==
    /\ pc = "Reading"
    /\ calls /= <<>>
    /\ IsGapRead(LastCall)
    /\ LastCall.ok
    /\ \E i \in DOMAIN calls : calls[i].op = "read" /\ ~calls[i].ok
    /\ decimator.hist /= <<>>

\* position i holds a full minute of samples at the resolved input rate
FullAt(ch, i) ==
    LET got == read_minute(archive[ch], MinuteStart(i))
    IN ~IsNone(got.samples) /\ got.samples[1].len = FullMinute(input_rate)

\* position i holds samples at all (not None, not empty)
PresentAt(ch, i) ==
    LET got == read_minute(archive[ch], MinuteStart(i))
    IN ~IsNone(got.samples) /\ got.samples[1].len > 0

\* position i is absent: not recorded, undecodable or empty
AbsentAt(ch, i) == ~PresentAt(ch, i)

\* the first process_day has finished channel ch
FirstRunDone(ch) ==
    /\ runs = 0
    /\ pc = "Channel"
    /\ calls /= <<>>
    /\ LastCall.op = "summary"
    /\ LastCall.ch = ch

SlotAt(i) == SlotOf(MinuteStart(i))

IsPrefix(s, t) == Len(s) <= Len(t) /\ \A k \in 1..Len(s) : s[k] = t[k]

\* the segments fed to the decimator between positions n-1 and n+1
FedBetween(ch, n) ==
    {i \in CallsOf("process", ch) :
        /\ calls[i].ts > MinuteStart(n - 1)
        /\ calls[i].ts < MinuteStart(n + 1)}

\* what gap integrity concludes for the gap at position n: slot n unwritten,
\* its neighbours written, the segment of slot n+1 computed from the filter
\* history of slot n-1 (advanced by nothing but the segments fed between
\* them) and from the samples of minute n+1, by the one decimator of the run
GapIntegrityAt(ch, n) ==
    /\ SlotAt(n) \notin DOMAIN buffer[ch]
    /\ SlotAt(n - 1) \in DOMAIN buffer[ch]
    /\ SlotAt(n + 1) \in DOMAIN buffer[ch]
    /\ LET before == buffer[ch][SlotAt(n - 1)].iq
           after == buffer[ch][SlotAt(n + 1)].iq
           fed == read_minute(archive[ch], MinuteStart(n + 1)).samples[1].data
       IN /\ before /= <<>>
          /\ IsPrefix(before, after)
          /\ Len(after) = Len(before) + Cardinality(FedBetween(ch, n)) + 1
          /\ after[Len(after)] = fed
    /\ Cardinality(CallsOf("start", ch)) = 1

\* C2 (as amended): after process_day on an empty buffer, if minute N is
\* absent while minutes N-1 and N+1 hold a full minute of samples at the
\* resolved input rate, slot N is unwritten, slots N-1 and N+1 are written,
\* and the segment of slot N+1 continues the filter history left by minute
\* N-1: the one decimator of the run was not reset by the gap.
C2_GapIntegrity ==
    FirstRunDone(OneChannel) =>
      \A n \in 2..(NumMinutes - 1) :
        (FullAt(OneChannel, n - 1) /\ AbsentAt(OneChannel, n)
           /\ FullAt(OneChannel, n + 1))
          => GapIntegrityAt(OneChannel, n)

C2_Witness ==
    /\ FirstRunDone(OneChannel)
    /\ FullAt(OneChannel, 1) /\ AbsentAt(OneChannel, 2) /\ FullAt(OneChannel, 3)
    /\ GapIntegrityAt(OneChannel, 2)
    /\ ~IsNone(read_minute(archive[OneChannel], MinuteStart(2)).metadata)

\* C2 as claimed: the same with minutes N-1 and N+1 merely present.
C2_AsClaimed ==
    FirstRunDone(OneChannel) =>
      \A n \in 2..(NumMinutes - 1) :
        (PresentAt(OneChannel, n - 1) /\ AbsentAt(OneChannel, n)
           /\ PresentAt(OneChannel, n + 1))
          => GapIntegrityAt(OneChannel, n)

\* C3: a second process_day over the same raw files leaves the buffer and
\* its metadata rows as the first one left them.
C3_Idempotent ==
    (pc = "Idle" /\ runs >= 2) => buffer = bufferAtStart

C3_Witness ==
    /\ pc = "Idle"
    /\ runs = 2
    /\ Cardinality(DOMAIN buffer[OneChannel]) >= 2
    /\ \E i \in DOMAIN calls : calls[i].op = "write" /\ ~calls[i].ok

\* C4: within a channel's run the timestamps read, decimated and written
\* are strictly ascending: no minute twice, none after a later one.
C4_AscendingOrder ==
    \A i \in DOMAIN calls : \A j \in DOMAIN calls :
      (/\ i < j
       /\ calls[i].op \in {"read", "process", "write"}
       /\ calls[j].op = calls[i].op
       /\ calls[j].ch = calls[i].ch)
        => calls[i].ts < calls[j].ts

C4_Witness ==
    /\ Cardinality(CallsOf("process", OneChannel)) >= 3
    /\ Cardinality(CallsOf("read", OneChannel)) >= 4

\* read event i belongs to a minute the loop has finished with
MinuteDone(i) ==
    \/ \E j \in DOMAIN calls : j > i /\ calls[j].op \in {"read", "summary"}
    \/ pc \notin {"Read", "Decimated"}

\* the calls of kind op made for the minute of read event i
CallsFor(op, i) ==
    {j \in DOMAIN calls :
        calls[j].op = op /\ calls[j].ch = calls[i].ch /\ calls[j].ts = calls[i].ts}

IsSampleRead(e) == e.op = "read" /\ e.ok /\ e.n > 0

\* C5 (as amended): for every minute whose samples are present and
\* non-empty, decimator.process is called exactly once, right after the read,
\* and, when the decimated chunk is non-empty, write_minute is called exactly
\* once with the minute's timestamp right after it, before the next minute
\* is read; a minute whose decimated chunk is empty is not written.
C5_DecimateThenWrite ==
    \A i \in DOMAIN calls :
      (IsSampleRead(calls[i]) /\ MinuteDone(i)) =>
        /\ CallsFor("process", i) = {i + 1}
        /\ IF calls[i + 1].n > 0
           THEN CallsFor("write", i) = {i + 2}
           ELSE CallsFor("write", i) = {}

\* a run has decimated and written one minute and decimated a truncated one
\* to nothing
C5_Witness ==
    /\ pc = "Reading"
    /\ \E i \in DOMAIN calls :
         /\ IsSampleRead(calls[i]) /\ MinuteDone(i)
         /\ calls[i + 1].n = SAMPLES_PER_MINUTE
         /\ CallsFor("write", i) = {i + 2}
    /\ \E i \in DOMAIN calls :
         /\ IsSampleRead(calls[i]) /\ MinuteDone(i)
         /\ calls[i + 1].n = 0

\* C5 as claimed: every decimated minute is written.
C5_AsClaimed ==
    \A i \in DOMAIN calls :
      (IsSampleRead(calls[i]) /\ MinuteDone(i)) =>
        /\ CallsFor("process", i) = {i + 1}
        /\ CallsFor("write", i) = {i + 2}

\* the minute loop of a channel is under way
RunActive == pc \in {"Reading", "Read", "Decimated"}

\* the loop has consumed the last minute read_day yields and the summary of
\* line 156 is logged
RunDone ==
    /\ pc = "Channel"
    /\ calls /= <<>>
    /\ LastCall.op = "summary"
    /\ mi = Len(minutes)

\* C6: a channel-day run that has entered its minute loop reaches Done,
\* whatever minutes are listed, absent or rejected by write_minute: it
\* consumes the last minute and logs its summary.
C6_RunTerminates == RunActive ~> RunDone

\* a run has ended after a gap and a rejected write
C6_Witness ==
    /\ RunDone
    /\ \E i \in DOMAIN calls : IsGapRead(calls[i])
    /\ \E i \in DOMAIN calls : calls[i].op = "write" /\ ~calls[i].ok
    /\ \E i \in DOMAIN calls : calls[i].op = "write" /\ calls[i].ok

RECURSIVE RunMinutes(_, _, _, _, _)
\* the minute loop of lines 100-150 as a function: the buffer it leaves
RunMinutes(files, rate, ms, dec, buf) ==
    IF ms = <<>> THEN buf
    ELSE LET ts == Head(ms)
             got == read_minute(files, ts)
         IN IF HasSamples(got.samples)
            THEN LET out == process_output(dec, rate, got.samples[1])
                     after == process_state(dec, rate, got.samples[1])
                 IN RunMinutes(files, rate, Tail(ms), after,
                        IF HasChunk(Some(out))
                        THEN WriteCall(buf, ts, out, got.metadata,
                                       GapInfo(got.metadata))
                        ELSE buf)
            ELSE RunMinutes(files, rate, Tail(ms), dec, buf)

\* _process_channel_day raises before its loop
ChannelFails(files) ==
    \/ get_sample_rate_raises(files, date_str, "ascending")
    \/ decimator_init_raises(get_sample_rate(files, date_str, "ascending"))

\* the buffer _process_channel_day leaves when it is run on its own
RunAlone(files, buf) ==
    RunMinutes(files, get_sample_rate(files, date_str, "ascending"),
               get_available_minutes(files, date_str, "ascending"),
               NewDecimator, buf)

InList(ch) == \E k \in DOMAIN channels_to_process : channels_to_process[k] = ch

\* C7: when process_day returns, every channel of the list was attempted
\* exactly once, whichever of them raised, and the buffer of every channel
\* that did not raise is the one its run leaves on its own.
C7_FailureIsolation ==
    (pc = "Idle" /\ runs >= 1) =>
      \A ch \in Channels :
        IF InList(ch)
        THEN /\ Cardinality(CallsOf("start", ch) \cup CallsOf("failed", ch)) = 1
             /\ IF ChannelFails(archive[ch])
                THEN CallsOf("failed", ch) /= {}
                ELSE /\ CallsOf("summary", ch) /= {}
                     /\ buffer[ch] = RunAlone(archive[ch], bufferAtStart[ch])
        ELSE buffer[ch] = EmptyBuffer

\* process_day has returned after a channel that raised and a later one
\* that wrote two slots
C7_Witness ==
    /\ pc = "Idle"
    /\ runs = 1
    /\ \E i \in DOMAIN calls : \E j \in DOMAIN calls :
         /\ i < j
         /\ calls[i].op = "failed"
         /\ calls[j].op = "summary"
         /\ Cardinality(DOMAIN buffer[calls[j].ch]) = 2

\* the timestamp is off the minute grid or outside the processed day, or
\* the segment has not output_rate*60 samples
Rejectable(ts, chunk) ==
    \/ ts % SecondsPerMinute /= 0
    \/ ts < DayStart
    \/ ts >= DayStart + SecondsPerDay
    \/ chunk.len /= OutputRate * SecondsPerMinute

\* this step is a write_minute call that returned failure
WriteRejected ==
    /\ Len(calls') = Len(calls) + 1
    /\ calls'[Len(calls')].op = "write"
    /\ ~calls'[Len(calls')].ok

\* C8: write_minute returns failure and leaves every slot, metadata row and
\* written indicator of the buffer as it was when the timestamp is not
\* minute-aligned, not within the buffer's day, or the segment is not 600
\* samples long.
C8_RejectLeavesBuffer ==
    [][(/\ pc = "Decimated"
        /\ HasChunk(decimated_chunk)
        /\ Rejectable(minute_ts, decimated_chunk[1]))
         => (WriteRejected /\ buffer' = buffer)]_vars

RejectedWrites == {i \in DOMAIN calls : calls[i].op = "write" /\ ~calls[i].ok}

\* one run has had a write rejected for each of the three reasons, and one
\* accepted
C8_Witness ==
    /\ \E i \in RejectedWrites : calls[i].ts % SecondsPerMinute /= 0
    /\ \E i \in RejectedWrites : calls[i].ts >= DayStart + SecondsPerDay
    /\ \E i \in RejectedWrites :
         /\ calls[i].ts % SecondsPerMinute = 0
         /\ calls[i].ts < DayStart + SecondsPerDay
    /\ buffer[OneChannel] /= EmptyBuffer

\* C9 (as amended): when write_minute returns failure the orchestrator
\* keeps no count of it: minutes_processed, samples_generated and
\* gaps_detected stay as they are, and the loop goes on with the next minute.
C9_RejectionNotCounted ==
    [][WriteRejected =>
         /\ UNCHANGED <<minutes_processed, samples_generated, gaps_detected>>
         /\ UNCHANGED <<mi, minutes>>
         /\ pc' = "Reading"]_vars

\* after a rejected write the next minute was read, with an accepted write
\* counted before
C9_Witness ==
    /\ \E i \in RejectedWrites :
         i < Len(calls) /\ calls[i + 1].op = "read"
    /\ minutes_processed >= 1
    /\ samples_generated = minutes_processed * SAMPLES_PER_MINUTE

\* C9 as claimed: the rejection is counted, the minute is not, the loop
\* goes on.
C9_AsClaimed ==
    [][WriteRejected =>
         /\ gaps_detected' > gaps_detected
         /\ UNCHANGED <<minutes_processed, samples_generated>>
         /\ pc' = "Reading"]_vars

RECURSIVE SumOfN(_)
\* the sum of the n fields of a set of calls
SumOfN(is) ==
    IF is = {} THEN 0
    ELSE LET i == CHOOSE x \in is : TRUE IN calls[i].n + SumOfN(is \ {i})

\* the minutes of channel ch that were yielded without samples
AbsentMinutes(ch) == {i \in CallsOf("read", ch) : IsGapRead(calls[i])}

\* C10: when the summary of a run is logged, its gap count is the number of
\* absent minutes met plus the gap-sample counts forwarded to write_minute.
C10_GapCount ==
    (calls /= <<>> /\ LastCall.op = "summary") =>
      gaps_detected = Cardinality(AbsentMinutes(LastCall.ch))
                        + SumOfN(CallsOf("write", LastCall.ch))

\* the slots of the ten minutes of the integration test
IntegrationSlots == {SlotAt(i) : i \in 1..IntegrationMinutes}

\* C11: process_day on the channel-day of the integration test (ten
\* consecutive minutes of 20000*60 samples in .bin files, no metadata file)
\* leaves a buffer with exactly 10 written slots of 600 samples each.
C11_EndToEnd ==
    (FirstRunDone(OneChannel) /\ archive[OneChannel] = IntegrationArchive) =>
      /\ DOMAIN buffer[OneChannel] = IntegrationSlots
      /\ \A i \in CallsOf("write", OneChannel) : calls[i].ok
      /\ samples_generated = IntegrationMinutes * SAMPLES_PER_MINUTE

\* the encodings read_minute knows (raw_reader.py:101-137)
SupportedEncodings == {"bin", "bin.zst", "bin.lz4"}

\* the supported encodings under which the day directory holds stem t
EncodingsOf(files, t) ==
    {f.ext : f \in {x \in files : x.dir = date_str /\ x.stem = t
                                    /\ x.ext \in SupportedEncodings}}

StrictlyAscending(s) == \A i \in 1..(Len(s) - 1) : s[i] < s[i + 1]

Occurrences(s, v) == Cardinality({k \in DOMAIN s : s[k] = v})

\* C12: the list read_day got from get_available_minutes is strictly
\* ascending, holds a minute stored under several encodings exactly once,
\* and is the same for every order of the directory listing.
C12_ListedOnce ==
    RunActive =>
      /\ StrictlyAscending(minutes)
      /\ \A i \in 1..ReaderMinutes :
           EncodingsOf(archive[Channel], MinuteStart(i)) /= {}
             => Occurrences(minutes, MinuteStart(i)) = 1
      /\ \A o \in ListingOrders :
           get_available_minutes(archive[Channel], date_str, o) = minutes

\* a run lists two minutes, one stored under all three encodings and one
\* under two
C12_Witness ==
    /\ RunActive
    /\ Len(minutes) = 2
    /\ \E i \in 1..ReaderMinutes : \E j \in 1..ReaderMinutes :
         /\ i /= j
         /\ Cardinality(EncodingsOf(archive[Channel], MinuteStart(i))) = 3
         /\ Cardinality(EncodingsOf(archive[Channel], MinuteStart(j))) = 2

\* the stems of the day directory, whatever the files are
StemsOf(files) == {f.stem : f \in {x \in files : x.dir = date_str}}

InSeq(s, v) == \E k \in DOMAIN s : s[k] = v

\* C13: a timestamp is in the list of get_available_minutes if and only if
\* the day directory holds a .bin, .bin.zst or .bin.lz4 file for it; a file
\* with another suffix after ".bin" does not make its minute listed.
C13_ListedIffEncoded ==
    RunActive =>
      \A t \in StemsOf(archive[Channel]) \cup {minutes[k] : k \in DOMAIN minutes} :
        InSeq(minutes, t) <=> EncodingsOf(archive[Channel], t) /= {}

\* the stems of the files the glob of the day directory matches
PayloadStems(files) ==
    {f.stem : f \in {x \in files : x.dir = date_str /\ x.ext /= "json"}}

Aligned(t) == t % SecondsPerMinute = 0

\* every listed timestamp and every timestamp handed to write_minute is a
\* minute boundary
AllAligned ==
    /\ \A k \in DOMAIN minutes : Aligned(minutes[k])
    /\ \A i \in DOMAIN calls : calls[i].op = "write" => Aligned(calls[i].ts)

FilesOf(files, ts) == {f \in files : f.dir = DateOf(ts) /\ f.stem = ts}

\* payload file f yields samples: it is sound, and np.memmap is not given
\* an empty file
Decodes(f) ==
    /\ f.ext \in SupportedEncodings
    /\ f.ok
    /\ (f.ext = "bin" => f.len > 0)

\* the payload files of minute ts that decode
Decodable(files, ts) == {f \in FilesOf(files, ts) : Decodes(f)}

\* the metadata file of minute ts, readable or not
JsonOf(files, ts) == {f \in FilesOf(files, ts) : f.ext = "json"}

\* C15: read_minute returns to the loop whatever fails to decode: when no
\* payload decodes the samples are None, when the metadata file does not
\* parse the metadata are None, and neither failure touches the other
\* component; the run is not ended by it.
C15_DecodeFailuresAbsent ==
    /\ pc = "Read" =>
         LET files == archive[Channel]
             payload == Decodable(files, minute_ts)
             json == JsonOf(files, minute_ts)
         IN /\ (payload = {}) <=> IsNone(samples)
            /\ (\A f \in json : ~f.ok) <=> IsNone(meta)
            /\ \A f \in json : f.ok => meta = Some(f.fields)
    /\ \A i \in DOMAIN calls : \A j \in DOMAIN calls :
         (calls[i].op = "read" /\ i < j) => calls[j].op /= "failed"

\* a minute whose metadata did not parse was read with its samples, then a
\* minute no encoding of which decodes was read with its metadata
C15_Witness ==
    /\ pc = "Read"
    /\ Len(minutes) = 2
    /\ minute_ts = minutes[2]
    /\ (\E f \in JsonOf(archive[Channel], minutes[1]) : ~f.ok)
    /\ \E i \in DOMAIN calls :
         calls[i].op = "read" /\ calls[i].ts = minutes[1] /\ calls[i].ok
    /\ (\E f \in FilesOf(archive[Channel], minute_ts) :
          f.ext \in SupportedEncodings /\ ~Decodes(f))
    /\ IsNone(samples)
    /\ ~IsNone(meta)

\* the decodable payload of minute ts that read_minute tries first
FirstDecodable(files, ts) ==
    {f \in Decodable(files, ts) :
        \A g \in Decodable(files, ts) : ExtRank(f.ext) <= ExtRank(g.ext)}

\* C16: the samples read_minute returns are those of the first of .bin,
\* .bin.zst, .bin.lz4 that exists and decodes, an encoding that is missing
\* or fails being passed over; they are None only when none decodes.
C16_EncodingPrecedence ==
    pc = "Read" =>
      LET first == FirstDecodable(archive[Channel], minute_ts)
      IN IF first = {} THEN IsNone(samples)
         ELSE \A f \in first : samples = Some(Samples(f))

\* after a minute read from its .bin although the other encodings exist, a
\* minute is read from its .bin.lz4, the .bin and the .bin.zst having failed
C16_Witness ==
    /\ pc = "Read"
    /\ Len(minutes) = 2
    /\ minute_ts = minutes[2]
    /\ AllEncodings(TestDay, minutes[1]) \subseteq archive[Channel]
    /\ \E i \in DOMAIN calls :
         /\ calls[i].op = "read" /\ calls[i].ts = minutes[1]
         /\ calls[i].n = FullMinute(DefaultRate)
    /\ OnlyLz4Decodes(TestDay, minute_ts) \subseteq archive[Channel]
    /\ samples = Some([len |-> FullMinute(DefaultRate), data |-> 13])

\* the sample_rate fields found in the metadata of the first minute of the
\* day directory's listing: at most one value, none when the day has no
\* minute, the minute no readable metadata, or the metadata no such field
FirstDeclared(files) ==
    LET stems == PayloadStems(files)
    IN {f.fields["sample_rate"] :
          f \in {x \in files :
                   /\ x.dir = date_str /\ x.ext = "json" /\ x.ok
                   /\ x.stem \in stems
                   /\ \A t \in stems : x.stem <= t
                   /\ "sample_rate" \in DOMAIN x.fields}}

\* what get_sample_rate does for a day directory: it returns rate r
Returns(files, r) ==
    \A o \in ListingOrders :
        /\ ~get_sample_rate_raises(files, date_str, o)
        /\ get_sample_rate(files, date_str, o) = r

Raises(files) ==
    \A o \in ListingOrders : get_sample_rate_raises(files, date_str, o)

ReadsOf(ch) == SelectSeq(calls, LAMBDA e : e.op = "read" /\ e.ch = ch)

\* the triple read_day yields for minute ts, as the call history records it
Yielded(files, ch, ts) ==
    LET got == read_minute(files, ts)
    IN Call("read", ch, ts, ~IsNone(got.samples),
            IF IsNone(got.samples) THEN 0 ELSE got.samples[1].len)

\* C18: a run of read_day yields one triple for every minute of
\* get_available_minutes, in its order, each the result of read_minute for
\* that minute; every run over the unchanged archive yields that same
\* sequence.
C18_ReadDay ==
    /\ (calls /= <<>> /\ LastCall.op = "summary") =>
         LET files == archive[LastCall.ch]
             listed == get_available_minutes(files, date_str, "ascending")
         IN ReadsOf(LastCall.ch) =
              [k \in 1..Len(listed) |-> Yielded(files, LastCall.ch, listed[k])]
    /\ pc = "Read" =>
         /\ minute_ts = minutes[mi]
         /\ samples = read_minute(archive[Channel], minute_ts).samples
         /\ meta = read_minute(archive[Channel], minute_ts).metadata

\* the second run over an archive has yielded two minutes, one of them
\* without samples
C18_Witness ==
    /\ RunDone
    /\ runs = 1
    /\ Len(ReadsOf(OneChannel)) = 2
    /\ \E k \in 1..2 : ~ReadsOf(OneChannel)[k].ok
    /\ \E k \in 1..2 : ReadsOf(OneChannel)[k].ok

\* the logical channels that have a directory under either root, whatever
\* the separators of its name
LogicalChannels ==
    {UnderscoresToSpaces(n) :
        n \in {m \in DOMAIN data_root["raw_archive"] :
                 data_root["raw_archive"][m].is_dir}
                \cup {m \in DOMAIN data_root["raw_buffer"] :
                        data_root["raw_buffer"][m].is_dir}}

\* the attempts made to process channel ch in the current process_day
Attempts(ch) == CallsOf("start", ch) \cup CallsOf("failed", ch)

\* C19: process_day with no channel given lists every logical channel that
\* has a directory once, whether the directory is named with underscores or
\* with spaces and whether it lies under raw_archive, raw_buffer or both,
\* and processes each once per call.
C19_DiscoveredOnce ==
    (pc /= "Idle" \/ runs >= 1) =>
      /\ \A i \in DOMAIN channels_to_process :
           \A j \in DOMAIN channels_to_process :
             channels_to_process[i] = channels_to_process[j] => i = j
      /\ {channels_to_process[k] : k \in DOMAIN channels_to_process}
           = LogicalChannels
      /\ \A ch \in Channels : Cardinality(Attempts(ch)) <= 1
      /\ pc = "Idle" =>
           \A ch \in LogicalChannels : Cardinality(Attempts(ch)) = 1

\* a call has returned after one attempt for each of two channels, one of
\* them present under both names in raw_archive and under raw_buffer
C19_Witness ==
    /\ pc = "Idle"
    /\ runs = 1
    /\ {"WWV_10_MHz", "WWV 10 MHz"} \subseteq DOMAIN data_root["raw_archive"]
    /\ data_root["raw_archive"]["WWV_10_MHz"].is_dir
    /\ "WWV_10_MHz" \in DOMAIN data_root["raw_buffer"]
    /\ channels_to_process = <<"CHU 3.33 MHz", "WWV 10 MHz">>
    /\ Cardinality(Attempts("WWV 10 MHz")) = 1

\* the files of the root the claim assigns to channel ch
PreferredFiles(ch) ==
    LET name == SpacesToUnderscores(ch)
    IN IF name \in DOMAIN data_root["raw_archive"]
       THEN data_root["raw_archive"][name].files
       ELSE IF name \in DOMAIN data_root["raw_buffer"]
            THEN data_root["raw_buffer"][name].files
            ELSE {}

\* C20: the reader of a channel reads raw_archive/<channel_dir> whenever it
\* exists and raw_buffer/<channel_dir> only when it does not: the minutes it
\* lists and the samples and metadata it yields are those of that root alone.
C20_ArchivePreferred ==
    /\ \A ch \in Channels :
         Attempts(ch) /= {} => archive[ch] = PreferredFiles(ch)
    /\ RunActive =>
         {minutes[k] : k \in DOMAIN minutes} = PayloadStems(PreferredFiles(Channel))
    /\ pc = "Read" =>
         /\ samples = read_minute(PreferredFiles(Channel), minute_ts).samples
         /\ meta = read_minute(PreferredFiles(Channel), minute_ts).metadata

\* one call has read a channel from raw_buffer, its raw_archive directory
\* being absent, and is reading another from an existing but empty
\* raw_archive directory although raw_buffer holds its minutes
C20_Witness ==
    /\ pc = "Reading"
    /\ Channel = "WWV 10 MHz"
    /\ minutes = <<>>
    /\ "WWV_10_MHz" \in DOMAIN data_root["raw_archive"]
    /\ "WWV_10_MHz" \in DOMAIN data_root["raw_buffer"]
    /\ data_root["raw_buffer"]["WWV_10_MHz"].files = BufferSide
    /\ "CHU_3.33_MHz" \notin DOMAIN data_root["raw_archive"]
    /\ Cardinality(CallsOf("read", "CHU 3.33 MHz")) = 2
    /\ archive["CHU 3.33 MHz"] = BufferSide

\* the first minute of channel ch declares a rate that is a number and no
\* multiple of the output rate
RateUnfit(ch) ==
    \E v \in FirstDeclared(archive[ch]) : v.isint /\ v.v % OutputRate /= 0

\* C21: when the resolved input rate is no multiple of the output rate 10
\* the channel fails where its decimator is constructed: no minute of the
\* channel-day is yielded by read_day, decimated or written and its buffer
\* stays as it was.
C21_RateCheckedAtConstruction ==
    \A ch \in Channels :
      (Attempts(ch) /= {} /\ RateUnfit(ch)) =>
        /\ CallsOf("failed", ch) /= {}
        /\ CallsOf("start", ch) = {}
        /\ CallsOf("read", ch) = {}
        /\ CallsOf("process", ch) = {}
        /\ CallsOf("write", ch) = {}
        /\ buffer[ch] = bufferAtStart[ch]

\* process_day has returned from a channel-day whose first minute declares
\* 24005 Hz and whose second minute holds samples
C21_Witness ==
    /\ pc = "Idle"
    /\ runs = 1
    /\ RateUnfit(OneChannel)
    /\ CallsOf("failed", OneChannel) /= {}
    /\ Decodable(archive[OneChannel], MinuteStart(2)) /= {}
    /\ buffer[OneChannel] = EmptyBuffer

\* the first minute of channel ch declares a sample rate int() rejects
RateUnusable(ch) == \E v \in FirstDeclared(archive[ch]) : ~v.isint

\* C22: a channel whose metadata declare a sample rate that is no usable
\* integer falls back to the nominal 24000 and its day is processed: the
\* channel does not fail.
C22_RateFallback ==
    \A ch \in Channels :
      (Attempts(ch) /= {} /\ RateUnusable(ch)) =>
        /\ CallsOf("failed", ch) = {}
        /\ CallsOf("start", ch) /= {}
        /\ (RunActive /\ Channel = ch) => input_rate = DefaultRate

\* the value of field k in the readable metadata file of minute ts, or the
\* default when there is no such file or no such field
FieldOr(files, ts, k, default) ==
    LET holders == {f \in JsonOf(files, ts) : f.ok /\ k \in DOMAIN f.fields}
    IN IF holders = {} THEN default
       ELSE (CHOOSE f \in holders : TRUE).fields[k]

\* the start of the minute of slot s of the processed day
SlotStart(s) == DayStart + s * SecondsPerMinute

\* C27: the row a successful write_minute call stores for a minute carries
\* d_clock_ms, uncertainty_ms, quality_grade and gap_samples of the minute's
\* raw metadata where the field is present, and 0.0, 999.9, 'X' and 0 for
\* a field that is missing or when the minute has no metadata.
C27_MetadataEcho ==
    \A ch \in Channels : \A s \in DOMAIN buffer[ch] :
      LET row == buffer[ch][s]
          files == archive[ch]
      IN /\ row.d_clock_ms = FieldOr(files, SlotStart(s), "d_clock_ms", 0)
         /\ row.uncertainty_ms = FieldOr(files, SlotStart(s), "uncertainty_ms", 9999)
         /\ row.quality_grade = FieldOr(files, SlotStart(s), "quality_grade", "X")
         /\ row.gap_samples = FieldOr(files, SlotStart(s), "gap_samples", 0)

\* one minute was written with the four fields of its metadata and one
\* with its gap count and three defaults
C27_Witness ==
    /\ SlotAt(1) \in DOMAIN buffer[OneChannel]
    /\ SlotAt(2) \in DOMAIN buffer[OneChannel]
    /\ buffer[OneChannel][SlotAt(1)].quality_grade = "A"
    /\ buffer[OneChannel][SlotAt(1)].d_clock_ms = 12
    /\ buffer[OneChannel][SlotAt(1)].gap_samples = 5
    /\ buffer[OneChannel][SlotAt(2)].quality_grade = "X"
    /\ buffer[OneChannel][SlotAt(2)].uncertainty_ms = 9999
    /\ buffer[OneChannel][SlotAt(2)].gap_samples = 1

\* the write_minute calls of channel ch that returned success
AcceptedWrites(ch) == {i \in CallsOf("write", ch) : calls[i].ok}

\* the minutes of channel ch that were yielded with samples
PresentMinutes(ch) == {i \in CallsOf("read", ch) : IsSampleRead(calls[i])}

\* C28: during a channel-day run minutes_processed is the number of
\* write_minute calls that returned success so far, it is at most the
\* number of present minutes consumed so far, and samples_generated is
\* 600 * minutes_processed.
C28_Counters ==
    RunActive =>
      /\ minutes_processed = Cardinality(AcceptedWrites(Channel))
      /\ minutes_processed <= Cardinality(PresentMinutes(Channel))
      /\ samples_generated = 600 * minutes_processed

\* a run has counted one written minute, after an absent minute and a
\* rejected write
C28_Witness ==
    /\ RunActive
    /\ minutes_processed = 1
    /\ samples_generated = 600
    /\ AbsentMinutes(Channel) /= {}
    /\ \E i \in RejectedWrites : calls[i].ch = Channel

\* the files of directory D that make minute ts listed and decode
ListedDecodable(files, ts) ==
    {f \in files : f.dir = date_str /\ f.stem = ts /\ Decodes(f)}

\* C29: whenever a file that made a minute listed in the day directory
\* decodes, read_day yields samples for that minute (read_minute looks in
\* the directory in which the minute was listed).
C29_ReadWhereListed ==
    (pc = "Read" /\ ListedDecodable(archive[Channel], minute_ts) /= {}) =>
        ~IsNone(samples)

Roots == {"raw_archive", "raw_buffer"}

\* the names with a space among the directory names
HasSpace(name) ==
    name \in {"CHU 3.33 MHz", "WWV 10 MHz", "WWV_10 MHz", "WWV 5 MHz"}

\* every entry of either root that stands for channel ch is a directory
\* named without spaces
WellNamed(ch) ==
    \A r \in Roots : \A n \in DOMAIN data_root[r] :
      UnderscoresToSpaces(n) = ch => (~HasSpace(n) /\ data_root[r][n].is_dir)

\* the archive directory the reader of channel ch resolves is an existing
\* directory from which ch is discovered
ResolvesToDirectory(ch) ==
    LET r == ArchiveDirRoot(data_root, ch)
        n == SpacesToUnderscores(ch)
    IN /\ n \in DOMAIN data_root[r]
       /\ data_root[r][n].is_dir
       /\ UnderscoresToSpaces(n) = ch

Discovered == {channels_to_process[k] : k \in DOMAIN channels_to_process}

\* C30: for every channel name produced by channel discovery whose entries
\* under raw_archive and raw_buffer are all directories named without
\* spaces, the archive directory the reader resolves for that name is an
\* existing directory, one from which the name was discovered.
C30_RoundTrip ==
    (pc /= "Idle" \/ runs >= 1) =>
      \A ch \in Discovered : WellNamed(ch) => ResolvesToDirectory(ch)

\* a call has discovered and processed a channel that has a directory under
\* raw_buffer only, next to a channel with a directory under both roots
C30_Witness ==
    /\ pc = "Idle"
    /\ runs = 1
    /\ Discovered = {"CHU 3.33 MHz", "WWV 10 MHz"}
    /\ WellNamed("WWV 10 MHz")
    /\ WellNamed("CHU 3.33 MHz")
    /\ "WWV_10_MHz" \notin DOMAIN data_root["raw_archive"]
    /\ "CHU_3.33_MHz" \in DOMAIN data_root["raw_archive"]
    /\ "CHU_3.33_MHz" \in DOMAIN data_root["raw_buffer"]
    /\ Attempts("WWV 10 MHz") /= {}
    /\ archive["WWV 10 MHz"] = BufferSide

\* C30 as stated: the round trip for every discovered name
C30_AsClaimed ==
    (pc /= "Idle" \/ runs >= 1) =>
      \A ch \in Discovered : ResolvesToDirectory(ch)

\* C24: after an abort between two minutes every slot written before the
\* abort holds the row an uninterrupted run writes to it, and a run of the
\* same day that completes afterwards, on the same raw inputs, leaves the
\* buffer a single uninterrupted run leaves.
C24_AbortAndRerun ==
    /\ (calls /= <<>> /\ LastCall.op = "abort") =>
         LET ch == LastCall.ch
             whole == RunAlone(archive[ch], EmptyBuffer)
         IN \A i \in AcceptedWrites(ch) :
              /\ SlotOf(calls[i].ts) \in DOMAIN buffer[ch]
              /\ SlotOf(calls[i].ts) \in DOMAIN whole
              /\ buffer[ch][SlotOf(calls[i].ts)] = whole[SlotOf(calls[i].ts)]
    /\ (calls /= <<>> /\ LastCall.op = "summary") =>
         buffer[LastCall.ch] = RunAlone(archive[LastCall.ch], EmptyBuffer)

\* the first completed run of a day follows a run that was aborted after
\* it had written a slot, and has written a second slot
C24_Witness ==
    /\ calls /= <<>>
    /\ LastCall.op = "summary"
    /\ runs = 0
    /\ bufferAtStart[OneChannel] /= EmptyBuffer
    /\ SlotAt(1) \in DOMAIN bufferAtStart[OneChannel]
    /\ SlotAt(2) \notin DOMAIN bufferAtStart[OneChannel]
    /\ SlotAt(2) \in DOMAIN buffer[OneChannel]

\* cleanup_handler has run on an existing dataset directory
CleanedDataset == handler = "Returned" /\ ~IsNone(dataset)

\* C25: after cleanup_handler has run on an existing dataset directory the
\* .upload_complete token that was in it is still there, every other entry
\* whose deletion succeeds is removed, and an entry whose deletion fails is
\* left in place.
C25_TokenKept ==
    CleanedDataset =>
      \A n \in DOMAIN dataset[1] :
        dataset[1][n].present <=> (n = Token \/ ~dataset[1][n].deletable)

\* the handler has returned from a directory with the token, a removed
\* sub-directory and a file that could not be deleted
C25_Witness ==
    /\ CleanedDataset
    /\ DOMAIN dataset[1] = {Token, "metadata", "drf.h5"}
    /\ dataset[1][Token].present
    /\ ~dataset[1]["metadata"].present
    /\ ~dataset[1]["drf.h5"].deletable
    /\ dataset[1]["drf.h5"].present

\* C25 as stated: every entry but the token is removed
C25_AsClaimed ==
    CleanedDataset =>
      \A n \in DOMAIN dataset[1] : dataset[1][n].present <=> n = Token

\* the task has a date and its dataset path lies under <data_root>/upload
UnderUpload ==
    /\ "date" \in DOMAIN task.metadata
    /\ Len(task.dataset_path) > 2
    /\ SubSeq(task.dataset_path, 1, 2) = <<"data", "upload">>

\* the dataset path is at most four levels below <data_root>/upload and
\* none of its names below is upload
WithinReach ==
    /\ Len(task.dataset_path) <= 6
    /\ \A k \in 3..Len(task.dataset_path) : task.dataset_path[k] /= "upload"

\* the decimated directories of the channels of products
DecimatedDirs == {n \in DOMAIN products : products[n].is_dir /\ products[n].decimated}

\* the decimated files of the date of the task, and those of other dates
OfTaskDate(n) == n \in {"20251218.bin", "20251218.json"}

\* no decimated file of the date of the task resists unlink
AllRemovable ==
    \A c \in DecimatedDirs : \A n \in DOMAIN products[c].files :
      OfTaskDate(n) => products[c].files[n].deletable

RECURSIVE FeedMinutes(_, _, _, _)
\* the decimator the minute loop of lines 100-150 leaves
FeedMinutes(files, rate, ms, dec) ==
    IF ms = <<>> THEN dec
    ELSE LET got == read_minute(files, Head(ms))
         IN FeedMinutes(files, rate, Tail(ms),
                IF HasSamples(got.samples)
                THEN process_state(dec, rate, got.samples[1])
                ELSE dec)

\* the decimator _process_channel_day leaves when it is run on its own
DecimatorAlone(files) ==
    FeedMinutes(files, get_sample_rate(files, date_str, "ascending"),
                get_available_minutes(files, date_str, "ascending"),
                NewDecimator)

\* C23: for any interleaving of the steps of two concurrent channel-day
\* runs on different channels, the buffer and the decimator a run ends with
\* are those of running its channel alone; a run that fails before its
\* loop leaves the buffer of its channel as it was.
C23_Independent ==
    \A ch \in ConcurrentChannels :
      /\ workers[ch].pc = "Done" =>
           /\ buffer[ch] = RunAlone(archive[ch], EmptyBuffer)
           /\ workers[ch].decimator = DecimatorAlone(archive[ch])
      /\ workers[ch].pc = "Failed" => buffer[ch] = EmptyBuffer

\* both runs have ended after steps taken while the other was under way,
\* one with two written minutes and one with one
C23_Witness ==
    /\ \A ch \in ConcurrentChannels :
         workers[ch].pc = "Done" /\ workers[ch].overlap
    /\ workers["WWV 10 MHz"].minutes_processed = 2
    /\ workers["CHU 3.33 MHz"].minutes_processed = 1
    /\ Len(workers["CHU 3.33 MHz"].decimator.hist) = 1
    /\ Len(workers["WWV 10 MHz"].decimator.hist) = 2

\* the slots of the minutes the current run of channel ch has written
WrittenInRun(ch) == {SlotOf(calls[i].ts) : i \in AcceptedWrites(ch)}

\* C31: when a run of a channel-day ends, the written slots of the buffer
\* are those of the minutes that were present and successfully written in
\* that run, whatever earlier runs have written.
C31_NoStaleSlots ==
    (calls /= <<>> /\ LastCall.op = "summary") =>
        DOMAIN buffer[LastCall.ch] = WrittenInRun(LastCall.ch)

====
